---------------------------- MODULE Spec2Model ----------------------------
(***************************************************************************)
(* State-machine model of the gc5 caching and fetch pipeline:              *)
(*   src/src/gc/cache.rs       Cache (get, fetch_chunk, discover, ...)     *)
(*   src/src/gc/groundspeak.rs Groundspeak (discover, fetch), parse        *)
(*   src/src/gc/tokencache.rs  AuthProvider (token, refresh)               *)
(*   src/src/job.rs            Job, JobQueue                               *)
(*   src/src/gcgeo/tile.rs     Tile (quadkey)                              *)
(*                                                                         *)
(* Time is counted in days.  In SpecGet, SpecChunk, SpecDiscover, SpecJob   *)
(* and SpecOrder one task runs the operations; every await on the          *)
(* upstream, the OAuth provider or a pacing sleep is a step.  The          *)
(* upstream, the OAuth provider and the database faults are the            *)
(* environment: their replies are nondeterministic choices.                *)
(*                                                                         *)
(* SpecGet, SpecDiscover and SpecJob let the clock advance; SpecChunk      *)
(* runs get on long code lists and SpecOrder runs job after job while the  *)
(* clock stands still.  SpecDiscoverRace and SpecRefreshRace run           *)
(* Cache::discover and AuthProvider::refresh in concurrent request         *)
(* handlers, statement by statement.  SpecQuadkey evaluates Tile::quadkey  *)
(* on pairs of tiles.                                                      *)
(***************************************************************************)
EXTENDS Integers, Sequences, FiniteSets, TLC

VARIABLES
    now,          \* Utc::now(), in days
    geocaches,    \* table geocaches: code -> None or Some([raw, ts])
    tiles2,       \* table tiles2: quadkey (as i32) -> None or Some(ts)
    tiles_codes,  \* table tiles_codes: quadkey -> set of [gccode, approx]
    settings,     \* table settings: [access_token, refresh_token]
    issued,       \* number of token pairs the OAuth provider has issued
    gs,           \* the running Cache::get / fetch_chunk call
    rf,           \* the running AuthProvider::refresh call
    ds,           \* the running Cache::discover call
    job,          \* the background task running Job::process_filtered
    jobs,         \* JobQueue.jobs: job id -> the Job (its state, its task)
    last_discovery, \* history: quadkey -> the last discovery that was stored
    log,          \* upstream requests issued by the running top-level call
    workers,      \* the calls of two request handlers that run concurrently
    calc          \* a pure function under evaluation: its arguments, its value

vars == <<now, geocaches, tiles2, tiles_codes, settings, issued,
          gs, rf, ds, job, jobs, last_discovery, log, workers, calc>>

----------------------------------------------------------------------------
(* Bounds of the model *)

\* the clock stops at MaxNow
MaxNow == 8
\* ordinary codes after the three special ones: the longest code list a
\* caller passes is the special codes followed by 2 * BATCH_SIZE + MaxExtra
\* ordinary ones (two full batches and the start of a third)
MaxExtra == 1
\* database read errors per Cache::get call
MaxReadErr == 1
\* token pairs the OAuth provider issues before it only answers non-2xx
MaxIssue == 2
\* jobs submitted to the JobQueue
MaxJobs == 1
\* tiles of one job
MaxTiles == 2
\* request handlers that run concurrently
MaxWorkers == 2
\* the deepest zoom of the tiles whose quadkey is evaluated on its own
MaxZoom == 18
\* jobs submitted one after the other over overlapping tiles
MaxOrderJobs == 2
\* jobs added to the JobQueue by concurrent request handlers
MaxQueued == 3
\* the side of the character buffer of a well-formed map.info reply
GridSide == 64
\* the world is a square of 2^MercatorBits by 2^MercatorBits points
MercatorBits == 14

----------------------------------------------------------------------------
(* Program constants *)

BATCH_SIZE == 50
FRESH_DAYS == 7
DEFAULT_ZOOM == 12

----------------------------------------------------------------------------
(* Values *)

\* Option<T>: None is the empty sequence, Some(v) the one-element sequence
None == <<>>
Some(v) == <<v>>

\* Codes are numbered.  Codes 1, 2, 3 are the special ones: the upstream may
\* answer each of them with a full record or in one irregular way (see
\* UpstreamAnswers), and the read of their row may fail.  The upstream
\* answers every other code with a full record.
Special == {1, 2, 3}
Codes == 1..(2 * BATCH_SIZE + MaxExtra)

Kinds == {"full", "premium", "malformed", "nocode"}

\* A detail record of the upstream: its referenceCode, its kind (see
\* UpstreamAnswers) and the fields the track filter reads: status,
\* geocacheType.id, difficulty and terrain (in tenths), postedCoordinates
RawDetail(c, k, status, type, difficulty, terrain, coord) ==
    [code |-> c, kind |-> k, status |-> status, geocacheType |-> type,
     difficulty |-> difficulty, terrain |-> terrain,
     postedCoordinates |-> coord]

\* unless said otherwise a record is an active traditional cache of
\* difficulty 2.0 and terrain 2.0 that lies at the track
Raw(c, k) == RawDetail(c, k, "Active", 2, 20, 20, "near")

Ok(v) == [ok |-> TRUE, val |-> v]
Err == [ok |-> FALSE, val |-> <<>>]

Range(s) == {s[i] : i \in 1..Len(s)}

RECURSIVE SeqsUpTo(_, _)
SeqsUpTo(S, n) ==
    IF n = 0 THEN {<<>>}
    ELSE LET shorter == SeqsUpTo(S, n - 1)
         IN shorter \cup {Append(s, x) : s \in shorter, x \in S}

Min(a, b) == IF a < b THEN a ELSE b

\* the enumerations of a finite set, each element once
Perms(S) == {s \in [1..Cardinality(S) -> S] : Range(s) = S}

----------------------------------------------------------------------------
(* tile.rs: Tile and its quadkey *)

Tile(x, y, z) == [x |-> x, y |-> y, z |-> z]

\* A u32 is kept as the set of the positions of its one bits.
Bits(n) == {i \in 0..30 : (n \div (2 ^ i)) % 2 = 1}

\* u32 << k: the bits shifted beyond bit 31 are dropped
Shl(bits, k) == {b + k : b \in bits} \cap (0..31)

\* the loop of Tile::quadkey, for i in 0..z:
\*   result |= (x & 1 << i) << i | (y & 1 << i) << (i + 1)
RECURSIVE quadkey_loop(_, _, _)
quadkey_loop(tile, i, result) ==
    IF i >= tile.z THEN result
    ELSE quadkey_loop(tile, i + 1,
             result \cup Shl(Bits(tile.x) \cap {i}, i)
                    \cup Shl(Bits(tile.y) \cap {i}, i + 1))

\* mutant of quadkey: the loop stops one bit early
quadkey_short(tile) == quadkey_loop([tile EXCEPT !.z = tile.z - 1], 0, {})

quadkey(tile) == quadkey_loop(tile, 0, {})

RECURSIVE SumBits(_)
SumBits(bits) ==
    IF bits = {} THEN 0
    ELSE LET b == CHOOSE x \in bits : TRUE
         IN 2 ^ b + SumBits(bits \ {b})

\* tile.quadkey() as i32, the key of the tile tables: bit 31 is the sign
as_i32(bits) ==
    IF 31 \in bits THEN (SumBits(bits \ {31}) - 2 ^ 30) - 2 ^ 30
    ELSE SumBits(bits)

Key(tile) == as_i32(quadkey(tile))

\* The tiles of the model: two tiles at zoom 14, and a tile at zoom 12 with
\* the x and y of the first one
TileA == Tile(1, 2, 14)
TileB == Tile(2, 1, 14)
TileC == Tile(1, 2, 12)
Tiles == {TileA, TileB, TileC}
NoTile == Tile(0, 0, 0)

\* the keys of the tiles of the model, computed once
TileKeys == [t \in Tiles |-> Key(t)]

QuadKeys == {TileKeys[t] : t \in Tiles}

\* GcCode { code, approx_coord }: the approximate coordinate is absent, or it
\* lies within 100 m of the track of the request ("near") or not ("far")
GcCode(code, approx) == [code |-> code, approx_coord |-> approx]

\* Coordinates are named; the geodesic distance of each to the closest point
\* of the track of the request, in decimetres: 40 m, 100.9 m, 101 m, and
\* some 6000 km for the coordinate (0, 0)
Distance(coord) ==
    CASE coord = "near" -> 400
      [] coord = "edge" -> 1009
      [] coord = "far" -> 1010
      [] coord = "origin" -> 60000000

\* Track::near: distance as u16, which drops the fraction and saturates
near(coord) == Min(Distance(coord) \div 10, 65535)

----------------------------------------------------------------------------
(* groundspeak.rs: parse *)

\* CacheType::from(u64)
CacheType_from(cache_type) ==
    CASE cache_type = 2 -> "Traditional"
      [] cache_type = 1858 -> "Wherigo"
      [] cache_type = 6 -> "Event"
      [] cache_type = 8 -> "Mystery"
      [] cache_type = 3 -> "Multi"
      [] cache_type = 137 -> "Earth"
      [] cache_type = 4 -> "Virtual"
      [] cache_type = 5 -> "Letterbox"
      [] cache_type = 13 -> "Cito"
      [] cache_type = 9 -> "Ape"
      [] cache_type = 11 -> "Webcam"
      [] cache_type = 453 -> "MegaEvent"
      [] cache_type = 1304 -> "GpsAdventures"
      [] cache_type = 3773 -> "Headquarter"
      [] cache_type = 7005 -> "GigaEvent"
      [] cache_type = 0 -> "Waypoint"
      [] OTHER -> "Unknown"

\* Geocache::premium(code): a stub with only the code set; the coordinate
\* is (0, 0)
premium(code) ==
    [code |-> code, is_premium |-> TRUE, available |-> FALSE,
     archived |-> FALSE, terrain |-> 0, difficulty |-> 0, coord |-> "origin",
     cache_type |-> "Unknown"]

\* referenceCode is required; a premium record needs nothing else; any other
\* record needs name, terrain, difficulty, coordinates, size, type, status
ParseOk(raw) == raw.kind \in {"full", "premium"}

parse(raw) ==
    IF raw.kind = "premium" THEN premium(raw.code)
    ELSE [code |-> raw.code, is_premium |-> FALSE,
          available |-> (raw.status = "Active"), archived |-> FALSE,
          terrain |-> raw.terrain, difficulty |-> raw.difficulty,
          coord |-> raw.postedCoordinates,
          cache_type |-> CacheType_from(raw.geocacheType)]

----------------------------------------------------------------------------
(* cache.rs: the detail table *)

cutoff_of(t) == t - FRESH_DAYS

\* mutant of FreshRow: the row written exactly at the cutoff counts as stale
FreshRow_strict(db, code, cutoff) ==
    db[code] # None /\ db[code][1].ts > cutoff

\* SELECT raw FROM geocaches WHERE id = $1 AND ts >= $2
FreshRow(db, code, cutoff) ==
    db[code] # None /\ db[code][1].ts >= cutoff

\* load_geocache_err: Ok(Some(parsed)) for a fresh row that parses, Ok(None)
\* without a row, Err for a row that does not parse
load_geocache_err(db, code, cutoff) ==
    IF FreshRow(db, code, cutoff)
    THEN IF ParseOk(db[code][1].raw) THEN Ok(Some(parse(db[code][1].raw)))
         ELSE Err
    ELSE Ok(None)

\* mutant of load_geocache: a row that does not parse yields the premium
\* placeholder of its code
load_geocache_placeholder(db, code, cutoff, bad) ==
    IF code \in bad THEN None
    ELSE LET r == load_geocache_err(db, code, cutoff)
         IN IF r.ok THEN r.val ELSE Some(premium(code))

\* load_geocache: errors (a failed read: code \in bad, or a parse error) are
\* logged and become None; the result is <<geocache>> or <<>>
load_geocache(db, code, cutoff, bad) ==
    IF code \in bad THEN None
    ELSE LET r == load_geocache_err(db, code, cutoff)
         IN IF r.ok THEN r.val ELSE None

\* Cache::get, lines 76-81: the partition of codes into cache_hit, cache_miss
Partition(db, codes, cutoff, bad) ==
    LET found(c) == load_geocache(db, c, cutoff, bad) # None
        missed(c) == ~found(c)
        hits == SelectSeq(codes, found)
    IN [hit |-> [i \in 1..Len(hits) |->
                   load_geocache(db, hits[i], cutoff, bad)[1]],
        miss |-> SelectSeq(codes, missed)]

\* mutant of ChunkAt: the last code of every chunk is left out
ChunkAt_short(miss, k, size) ==
    SubSeq(miss, k * size + 1, Min(Len(miss), (k + 1) * size) - 1)

\* cache_miss.chunks(chunk_size): the k-th chunk, k = 0, 1, ...
ChunkAt(miss, k, size) ==
    SubSeq(miss, k * size + 1, Min(Len(miss), (k + 1) * size))

NumChunks(miss, size) == (Len(miss) + size - 1) \div size

\* save_geocache: the row it upserts (none without a referenceCode) and the
\* parsed geocache it returns
SaveInserts(raw) == raw.kind # "nocode"

\* mutant of save_geocache: the record is parsed but not written
save_geocache_skip(db, raw, t) == db

save_geocache(db, raw, t) ==
    IF SaveInserts(raw)
    THEN [db EXCEPT ![raw.code] = Some([raw |-> raw, ts |-> t])]
    ELSE db

\* save_geocache for the records 1..last of fetched, in order: each save
\* upserts the row of its own code only, so a row ends as the last record
\* of its code wrote it
SaveRange(db, fetched, t, last) ==
    [c \in DOMAIN db |->
        LET writes == {i \in 1..last : SaveInserts(fetched[i])
                                        /\ fetched[i].code = c}
        IN IF writes = {} THEN db[c]
           ELSE LET i == CHOOSE i \in writes : \A j \in writes : j <= i
                IN save_geocache(db, fetched[i], t)[c]]

\* mutant of SaveAll: a record whose save or parse fails is left out of the
\* list (the filter_map of the pipeline that get leaves commented out)
SaveAll_skip_bad(db, fetched, t) ==
    LET good(raw) == SaveInserts(raw) /\ ParseOk(raw)
        kept == SelectSeq(fetched, good)
    IN [db |-> SaveRange(db, fetched, t, Len(fetched)),
        res |-> Ok([i \in 1..Len(kept) |-> parse(kept[i])])]

\* mutant of SaveAll: the saves of one reply are undone when one of them
\* or one parse fails
SaveAll_rollback(db, fetched, t) ==
    LET failing == {i \in 1..Len(fetched) :
                      ~(SaveInserts(fetched[i]) /\ ParseOk(fetched[i]))}
    IN [db |-> IF failing = {} THEN SaveRange(db, fetched, t, Len(fetched))
               ELSE db,
        res |-> IF failing = {}
                THEN Ok([i \in 1..Len(fetched) |-> parse(fetched[i])])
                ELSE Err]

\* fetch_chunk, lines 136-139: save the fetched records in order, stop at
\* the first one whose save or parse fails.  Yields the table and Ok(list)
\* or Err.
SaveAll(db, fetched, t) ==
    LET failing == {i \in 1..Len(fetched) :
                      ~(SaveInserts(fetched[i]) /\ ParseOk(fetched[i]))}
        last == IF failing = {} THEN Len(fetched)
                ELSE CHOOSE i \in failing : \A j \in failing : i <= j
    IN [db |-> SaveRange(db, fetched, t, last),
        res |-> IF failing = {}
                THEN Ok([i \in 1..Len(fetched) |-> parse(fetched[i])])
                ELSE Err]

----------------------------------------------------------------------------
(* cache.rs: the tile tables *)

\* mutant of TileFresh: a header written exactly at the cutoff counts as stale
TileFresh_strict(t2, q, cutoff) ==
    t2[q] # None /\ t2[q][1] > cutoff

\* SELECT ts FROM tiles2 where id = $1 and ts >= $2
TileFresh(t2, q, cutoff) ==
    t2[q] # None /\ t2[q][1] >= cutoff

\* INSERT INTO tiles_codes ... ON CONFLICT (id, gccode) DO UPDATE: the row of
\* the code is replaced; lat and lon are both set or both NULL
UpsertCode(rows, g) ==
    {r \in rows : r.gccode # g.code}
        \cup {[gccode |-> g.code, lat_lon |-> g.approx_coord]}

RECURSIVE UpsertAll(_, _)
UpsertAll(rows, codes) ==
    IF codes = <<>> THEN rows
    ELSE UpsertAll(UpsertCode(rows, Head(codes)), Tail(codes))

\* mutant of store_gccodes: the rows of the tile are not deleted first
store_gccodes_keep(t2, tc, q, codes, t) ==
    [t2 |-> [t2 EXCEPT ![q] = Some(t)],
     tc |-> [tc EXCEPT ![q] = UpsertAll(tc[q], codes)]]

\* mutant of store_gccodes: a tile without codes gets no header row
store_gccodes_skip_empty(t2, tc, q, codes, t) ==
    [t2 |-> IF codes = <<>> THEN t2 ELSE [t2 EXCEPT ![q] = Some(t)],
     tc |-> [tc EXCEPT ![q] = UpsertAll({}, codes)]]

\* store_gccodes, committed: DELETE the rows of the tile, upsert the header
\* with ts = now, upsert one row per code
store_gccodes(t2, tc, q, codes, t) ==
    [t2 |-> [t2 EXCEPT ![q] = Some(t)],
     tc |-> [tc EXCEPT ![q] = UpsertAll({}, codes)]]

\* mutant of load_gccodes: the SELECT has no WHERE id = $1
load_gccodes_all(tc, q) ==
    Perms({GcCode(r.gccode, r.lat_lon) : r \in UNION {tc[k] : k \in DOMAIN tc}})

\* load_gccodes: the rows of the tile, in the order the database returns
\* them (the SELECT has no ORDER BY), each turned into a GcCode
load_gccodes(tc, q) ==
    Perms({GcCode(r.gccode, r.lat_lon) : r \in tc[q]})

----------------------------------------------------------------------------
(* The upstream tile endpoint (environment) and utfgrid.rs *)

\* the code sets the map.info grid of a tile may show; UtfGrid::parse gives
\* every code once, with an approximate coordinate
TileAnswers(tile) ==
    CASE tile = TileA -> {{}, {GcCode(1, Some("near"))},
                          {GcCode(1, Some("near")), GcCode(3, Some("far"))}}
      [] tile = TileB -> {{}, {GcCode(2, Some("near"))}}
      [] tile = TileC -> {{GcCode(2, Some("far"))},
                          {GcCode(3, Some("near"))}}
      [] OTHER -> {{}}

\* Groundspeak::discover after the map.info request was sent: an error (the
\* request failed or the body is no UTF grid), the empty list (status 204, or
\* a grid without codes), or the codes of the grid in the iteration order of
\* a HashMap
discover_info(tile) ==
    {Err, Ok(<<>>)} \cup {Ok(s) : s \in UNION {Perms(a) : a \in TileAnswers(tile)}}

----------------------------------------------------------------------------
(* The upstream detail endpoint (environment) *)

\* what the upstream may send for one requested code: a full record, or
\*   code 1: a premium-only record (isPremiumOnly = true)
\*   code 2: a record with a required field other than referenceCode missing
\*   code 3: no record at all, or a record without referenceCode
UpstreamAnswers(c) ==
    {<<Raw(c, "full")>>} \cup
    CASE c = 1 -> {<<Raw(c, "premium")>>}
      [] c = 2 -> {<<Raw(c, "malformed")>>}
      [] c = 3 -> {<<>>, <<Raw(c, "nocode")>>}
      [] OTHER -> {}

\* the JSON arrays the upstream may send for a request: per requested code,
\* in request order, one of its answers
Replies(codes) ==
    LET special == {i \in 1..Len(codes) : codes[i] \in Special}
        answers == UNION {UpstreamAnswers(c) : c \in Special}
        choices == {g \in [special -> answers] :
                      \A i \in special : g[i] \in UpstreamAnswers(codes[i])}
        answer(g, i) == IF i \in special THEN g[i]
                        ELSE CHOOSE a \in UpstreamAnswers(codes[i]) : TRUE
        reply(g) ==
            LET present(i) == answer(g, i) # <<>>
                idx == SelectSeq([i \in 1..Len(codes) |-> i], present)
            IN [j \in 1..Len(idx) |-> answer(g, idx[j])[1]]
    IN {reply(g) : g \in choices}

----------------------------------------------------------------------------
(* groundspeak.rs: Groundspeak::fetch *)

\* The outcomes of fetch(token, codes): a list longer than BATCH_SIZE is
\* rejected before anything is sent; otherwise the request is sent and the
\* outcome is an error (transport error, or a body that is no JSON array,
\* as a 401 reply has) or the array of records.
fetch(token, codes) ==
    IF Len(codes) > BATCH_SIZE
    THEN {[sent |-> FALSE, res |-> Err]}
    ELSE {[sent |-> TRUE, res |-> Err]}
         \cup {[sent |-> TRUE, res |-> Ok(r)] : r \in Replies(codes)}

\* The log records what the running call sent to the outside: a detail
\* request (with its bearer token and code list), an invocation of
\* refresh() (by token() or by the error branch of fetch_chunk), a token
\* pair handed out by the OAuth provider, and the two requests of a tile
\* discovery (map.png, map.info).
DetailEvent(token, codes) == [ev |-> "detail", token |-> token, codes |-> codes]
TileEvent(what, tile) == [ev |-> what, token |-> 0, codes |-> <<tile>>]
RefreshEvent(by) == [ev |-> "refresh_by_" \o by, token |-> 0, codes |-> <<>>]
IssuedEvent(n) == [ev |-> "issued", token |-> n, codes |-> <<>>]

----------------------------------------------------------------------------
(* Initial state: empty tables; the settings rows may have been installed *)

IdleGet ==
    [pc |-> "idle", caller |-> "none", codes |-> <<>>, cutoff |-> 0,
     bad |-> {}, cache_hit |-> <<>>, cache_miss |-> <<>>, fetched |-> <<>>,
     k |-> 0, attempts |-> 0, token |-> None, result |-> Err,
     \* history: the time of the call, the rows of the requested codes as
     \* they were when the call looked them up, the length of the log when
     \* the call and when the running fetch_chunk began, and the result and
     \* cutoff of the preceding call when this one repeats it
     at |-> 0, rows |-> <<>>, start |-> 0, mark |-> 0, first |-> None,
     \* history: the arrays the detail calls of this get were answered with
     replies |-> <<>>]

IdleRefresh == [pc |-> "idle", caller |-> "none", old |-> None, new |-> None]

IdleDiscover ==
    [pc |-> "idle", caller |-> "none", tile |-> NoTile, ts |-> 0,
     codes |-> <<>>, result |-> Err,
     \* history: the time of the call, the header row of the tile and both
     \* tile tables as the call found them, the length of the log then
     at |-> 0, row |-> None, old |-> <<>>, start |-> 0]

----------------------------------------------------------------------------
(* job.rs: JobState, Job *)

\* The message is kept as the format string and its arguments.
Message(text, i, n, tile) == [text |-> text, i |-> i, n |-> n, tile |-> tile]

\* String::new()
EmptyMessage == Message("", 0, 0, NoTile)

\* mutant of DiscoverMessage: the tile index is shown without the + 1
DiscoverMessage_zero_based(index, tile_len, tile) ==
    Message("Discover tile {}/{}: {}", index, tile_len, tile)

\* format!("Discover tile {}/{}: {}", index + 1, tile_len, tile)
DiscoverMessage(index, tile_len, tile) ==
    Message("Discover tile {}/{}: {}", index + 1, tile_len, tile)

\* format!("Downloading {} geocaches", codes.len())
DownloadingMessage(len) == Message("Downloading {} geocaches", len, 0, NoTile)

Finished == Message("Finished", 0, 0, NoTile)

\* JobState::new()
JobState_new == [message |-> EmptyMessage, geocaches |-> <<>>]

set_message(st, message) == [st EXCEPT !.message = message]

get_message(st) == st.message

\* mutant of get_geocaches: the list is returned also when it is empty
get_geocaches_always(st) == Some(st.geocaches)

get_geocaches(st) ==
    IF st.geocaches = <<>> THEN None ELSE Some(st.geocaches)

\* JobQueue::get
JobQueue_get(q, id) == IF id \in DOMAIN q THEN Some(q[id]) ELSE None

\* mutant of JobQueue_add: the map holds two jobs, the oldest one goes
JobQueue_add_capped(q, j) ==
    IF Len(q) < 2 THEN Append(q, j)
    ELSE [id \in (DOMAIN q \ {1}) \cup {Len(q) + 1} |->
            IF id \in DOMAIN q THEN q[id] ELSE j]

\* JobQueue::add: insert(job.id.clone(), job); the id is a fresh UUID, in
\* the model the next number
JobQueue_add(q, j) == Append(q, j)

\* JobQueue::list: the jobs of the map, each named by its id
JobQueue_list(q) == {[id |-> id, job |-> q[id]] : id \in DOMAIN q}

\* Job::new() as JobQueue::add stores it and tokio::spawn runs it: the state,
\* the status of the spawned task, and as history the arguments of the run,
\* the messages set so far and the GcCodes the discoveries returned
NewJob(kind, tiles) ==
    [state |-> JobState_new, task |-> "running",
     kind |-> kind, tiles |-> tiles, msgs |-> <<>>, seen |-> <<>>]

\* mutant of pre_filter: the track lets every code pass, as the area does
pre_filter_all(kind, gc) == TRUE

\* the filters: Job::process passes |_| true twice ("area"); compute_track
\* passes the filters of the track ("track"): track.rs lines 14-20
pre_filter(kind, gc) ==
    \/ kind = "area"
    \/ gc.approx_coord = None
    \/ near(gc.approx_coord[1]) <= 100

\* track.rs lines 38-40
is_active(gc) == ~gc.is_premium /\ gc.available /\ ~gc.archived

\* mutant of is_quick_stop: earth caches and webcams count as quick, too
\* (the match arm that line 44 leaves commented out)
is_quick_stop_more_types(gc) ==
    /\ gc.cache_type \in {"Traditional", "Earth", "Webcam"}
    /\ gc.difficulty <= 30 /\ gc.terrain <= 30

\* track.rs lines 42-51
is_quick_stop(gc) ==
    /\ gc.cache_type = "Traditional"
    /\ gc.difficulty <= 30 /\ gc.terrain <= 30

\* Job::process passes |_| true ("area"); compute_track passes the filter of
\* track.rs line 21
post_filter(kind, geocache) ==
    \/ kind = "area"
    \/ /\ is_active(geocache)
       /\ is_quick_stop(geocache)
       /\ near(geocache.coord) <= 100

IdleJob ==
    [pc |-> "idle", id |-> 0, kind |-> "none", tiles |-> <<>>, index |-> 0,
     codes |-> <<>>]

\* a concurrent request handler: the call it runs (op) and where it is in
\* it (pc; "ret": the call has returned), the locals of Cache::discover
\* (tile, its quadkey as i32, codes, the rows its DELETE removed, the ts of
\* its header upsert)
\* and of AuthProvider::refresh (old, new), the result, and as history:
\* whether the call sent an upstream request, whether it committed, and
\* whether another call for the same key was running when it ran
IdleWorker ==
    [pc |-> "idle", op |-> "none", tile |-> NoTile, q |-> 0, codes |-> <<>>,
     del |-> {}, ts |-> 0, old |-> None, new |-> None, result |-> Err,
     asked |-> FALSE, wrote |-> FALSE, raced |-> FALSE,
     \* compute_area, compute_track: the id of the job the handler made, and
     \* as history whether its 2 s wait ran out
     id |-> 0, elapsed |-> FALSE,
     \* JobQueue: as history the ids in the map when the call held the lock
     seen |-> {},
     \* token(), refresh(): as history the settings rows when the call began,
     \* whether the lookup of the access token failed, whether refresh() was
     \* invoked, and the reply of the OAuth provider
     before |-> None, miss |-> FALSE, invoked |-> FALSE, reply |-> "none"]

Workers == 1..MaxWorkers

\* no concurrent request handlers are running
IdleWorkers == [w \in Workers |-> IdleWorker]

\* no pure function is under evaluation
IdleCalc == [op |-> "none", args |-> <<>>, out |-> <<>>]

Init ==
    /\ now = 0
    /\ geocaches = [c \in Codes |-> None]
    /\ tiles2 = [q \in QuadKeys |-> None]
    /\ tiles_codes = [q \in QuadKeys |-> {}]
    /\ settings \in [access_token : {None, Some(0)}, refresh_token : {None, Some(0)}]
    /\ issued = 0
    /\ gs = IdleGet
    /\ rf = IdleRefresh
    /\ ds = IdleDiscover
    /\ job = IdleJob
    /\ jobs = <<>>
    /\ last_discovery = [q \in QuadKeys |-> None]
    /\ log = <<>>
    /\ workers = IdleWorkers
    /\ calc = IdleCalc

----------------------------------------------------------------------------
(* The clock: it jumps by the freshness window or by one day more, so that *)
(* a row written at t is seen at t + 7 (just fresh) and at t + 8 (stale)    *)

Tick ==
    /\ \E d \in {FRESH_DAYS, FRESH_DAYS + 1} :
          /\ now + d <= MaxNow
          /\ now' = now + d
    /\ UNCHANGED <<workers, calc, geocaches, tiles2, tiles_codes, settings,
                   issued, gs, rf, ds, job, jobs, last_discovery, log>>

----------------------------------------------------------------------------
(* cache.rs: Cache::get *)

\* the sets of codes whose row read may fail during one get
ReadErrSets(codes) ==
    {b \in SUBSET (Range(codes) \cap Special) : Cardinality(b) <= MaxReadErr}

\* mutant of get: a failed row read fails the whole call
get_read_fails(codes, caller, first) ==
    \E bad \in ReadErrSets(codes) :
      LET cutoff == cutoff_of(now)
          p == Partition(geocaches, codes, cutoff, bad)
      IN gs' = [IdleGet EXCEPT
                  !.pc = IF p.miss = <<>> \/ bad # {} THEN "ret" ELSE "token",
                  !.caller = caller, !.codes = codes, !.cutoff = cutoff,
                  !.bad = bad, !.cache_hit = p.hit, !.cache_miss = p.miss,
                  !.result = IF p.miss = <<>> THEN Ok(p.hit) ELSE Err,
                  !.at = now, !.rows = [c \in Range(codes) |-> geocaches[c]],
                  !.start = Len(log'), !.mark = Len(log'), !.first = first]

\* Cache::get, lines 72-98 and 124: cutoff, partition, then either return the
\* hits or enter fetch_chunk for the first chunk
get(codes, caller, first) ==
    \E bad \in ReadErrSets(codes) :
      LET cutoff == cutoff_of(now)
          p == Partition(geocaches, codes, cutoff, bad)
      IN gs' = [IdleGet EXCEPT
                  !.pc = IF p.miss = <<>> THEN "ret" ELSE "token",
                  !.caller = caller, !.codes = codes, !.cutoff = cutoff,
                  !.bad = bad, !.cache_hit = p.hit, !.cache_miss = p.miss,
                  !.result = IF p.miss = <<>> THEN Ok(p.hit) ELSE Err,
                  !.at = now, !.rows = [c \in Range(codes) |-> geocaches[c]],
                  !.start = Len(log'), !.mark = Len(log'), !.first = first]

AllIdle ==
    /\ gs.pc = "idle" /\ rf.pc = "idle" /\ ds.pc = "idle" /\ job.pc = "idle"

\* the code lists a caller passes: the special codes, each at most once, in
\* ascending order
SmallInputs == {s \in SeqsUpTo(Special, Cardinality(Special)) :
                  \A i, j \in 1..Len(s) : i < j => s[i] < s[j]}

\* a client calls cache.get(codes) (main.rs: fetch)
CallGet ==
    /\ AllIdle
    /\ log' = <<>>
    /\ \E codes \in SmallInputs : get(codes, "top", None)
    /\ UNCHANGED <<workers, calc, now, geocaches, tiles2, tiles_codes, settings, issued,
                   rf, ds, job, jobs, last_discovery>>

\* the chunk fetch_chunk is working on
CurChunk == ChunkAt(gs.cache_miss, gs.k, BATCH_SIZE)

\* fetch_chunk line 131, tokencache.rs token(): the stored access token, or
\* refresh() when the lookup fails
TokenStep ==
    /\ gs.pc = "token"
    /\ IF settings.access_token # None
       THEN /\ gs' = [gs EXCEPT !.pc = "fetch", !.token = settings.access_token]
            /\ UNCHANGED <<rf, log>>
       ELSE /\ gs' = [gs EXCEPT !.pc = "refresh"]
            /\ rf' = [IdleRefresh EXCEPT !.pc = "load", !.caller = "token"]
            /\ log' = Append(log, RefreshEvent("token"))
    /\ UNCHANGED <<workers, calc, now, geocaches, tiles2, tiles_codes, settings, issued,
                   ds, job, jobs, last_discovery>>

\* mutant of ChunkDone: fewer geocaches than misses is an error (the return
\* that line 119 leaves commented out)
ChunkDone_strict(g, list) ==
    IF g.k + 1 < NumChunks(g.cache_miss, BATCH_SIZE)
    THEN [g EXCEPT !.fetched = g.fetched \o list, !.k = g.k + 1,
                   !.attempts = 0, !.pc = "token", !.mark = Len(log')]
    ELSE IF Len(g.fetched \o list) < Len(g.cache_miss)
         THEN [g EXCEPT !.fetched = g.fetched \o list, !.pc = "ret",
                        !.result = Err]
         ELSE [g EXCEPT !.fetched = g.fetched \o list, !.pc = "ret",
                        !.result = Ok(g.cache_hit \o g.fetched \o list)]

\* mutant of ChunkDone: the hits are appended to the fetched geocaches
ChunkDone_fetched_first(g, list) ==
    IF g.k + 1 < NumChunks(g.cache_miss, BATCH_SIZE)
    THEN [g EXCEPT !.fetched = g.fetched \o list, !.k = g.k + 1,
                   !.attempts = 0, !.pc = "token", !.mark = Len(log')]
    ELSE [g EXCEPT !.fetched = g.fetched \o list, !.pc = "ret",
                   !.result = Ok(g.fetched \o list \o g.cache_hit)]

\* Cache::get lines 97-98 and 113-124 after fetch_chunk returned Ok(list)
ChunkDone(g, list) ==
    IF g.k + 1 < NumChunks(g.cache_miss, BATCH_SIZE)
    THEN [g EXCEPT !.fetched = g.fetched \o list, !.k = g.k + 1,
                   !.attempts = 0, !.pc = "token", !.mark = Len(log')]
    ELSE [g EXCEPT !.fetched = g.fetched \o list, !.pc = "ret",
                   !.result = Ok(g.cache_hit \o g.fetched \o list)]

\* fetch_chunk lines 132-155: the detail call answers with an array; every
\* record is saved; Ok(result) or the first save error
FetchOk ==
    /\ gs.pc = "fetch"
    /\ \E o \in fetch(gs.token[1], CurChunk) :
          /\ o.res.ok
          /\ log' = Append(log, DetailEvent(gs.token[1], CurChunk))
          /\ LET s == SaveAll(geocaches, o.res.val, now)
                 g == [gs EXCEPT !.replies = Append(@, o.res.val)]
             IN /\ geocaches' = s.db
                /\ gs' = IF s.res.ok THEN ChunkDone(g, s.res.val)
                         ELSE [g EXCEPT !.pc = "ret", !.result = Err]
    /\ UNCHANGED <<workers, calc, now, tiles2, tiles_codes, settings, issued, rf, ds, job, jobs, last_discovery>>

\* fetch_chunk lines 157-164: the detail call failed; refresh the token
FetchErr ==
    /\ gs.pc = "fetch"
    /\ \E o \in fetch(gs.token[1], CurChunk) :
          /\ ~o.res.ok
          /\ log' = (IF o.sent THEN Append(log, DetailEvent(gs.token[1], CurChunk))
                     ELSE log) \o <<RefreshEvent("retry")>>
    /\ gs' = [gs EXCEPT !.pc = "refresh"]
    /\ rf' = [IdleRefresh EXCEPT !.pc = "load", !.caller = "retry"]
    /\ UNCHANGED <<workers, calc, now, geocaches, tiles2, tiles_codes, settings, issued,
                   ds, job, jobs, last_discovery>>

----------------------------------------------------------------------------
(* tokencache.rs: AuthProvider::refresh *)

\* refresh() failed: token() and fetch_chunk both pass the error on
RefreshFailed ==
    /\ rf' = IdleRefresh
    /\ gs' = [gs EXCEPT !.pc = "ret", !.result = Err]

\* line 39, load_refresh_token: fetch_one fails without a row
RefreshLoad ==
    /\ rf.pc = "load"
    /\ IF settings.refresh_token = None
       THEN RefreshFailed
       ELSE /\ rf' = [rf EXCEPT !.pc = "call", !.old = settings.refresh_token]
            /\ UNCHANGED gs
    /\ UNCHANGED <<workers, calc, now, geocaches, tiles2, tiles_codes, settings, issued,
                   ds, job, jobs, last_discovery, log>>

\* line 40, call_groundspeak: a 2xx reply carries a new pair of tokens
RefreshCallOk ==
    /\ rf.pc = "call"
    /\ issued < MaxIssue
    /\ issued' = issued + 1
    /\ log' = Append(log, IssuedEvent(issued + 1))
    /\ rf' = [rf EXCEPT !.pc = "store_refresh",
                        !.new = Some([access_token |-> issued + 1,
                                      refresh_token |-> issued + 1])]
    /\ UNCHANGED <<workers, calc, now, geocaches, tiles2, tiles_codes, settings,
                   gs, ds, job, jobs, last_discovery>>

\* line 40, call_groundspeak: a non-2xx reply is Err(Geocaching)
RefreshCallErr ==
    /\ rf.pc = "call"
    /\ RefreshFailed
    /\ UNCHANGED <<workers, calc, now, geocaches, tiles2, tiles_codes, settings, issued,
                   ds, job, jobs, last_discovery, log>>

\* INSERT INTO settings ... ON CONFLICT (id) DO UPDATE SET value = $1
store_refresh_token(st, tok) == [st EXCEPT !.refresh_token = Some(tok)]

\* mutant of store_access_token: the new access token is not written
store_access_token_skip(st, tok) == st

store_access_token(st, tok) == [st EXCEPT !.access_token = Some(tok)]

\* line 41, store_refresh_token
StoreRefresh ==
    /\ rf.pc = "store_refresh"
    /\ settings' = store_refresh_token(settings, rf.new[1].refresh_token)
    /\ rf' = [rf EXCEPT !.pc = "store_access"]
    /\ UNCHANGED <<workers, calc, now, geocaches, tiles2, tiles_codes, issued,
                   gs, ds, job, jobs, last_discovery, log>>

\* mutant of AfterRefresh: the error branch does not count the attempt
AfterRefresh_uncounted(g, caller, tok) ==
    IF caller = "token"
    THEN [g EXCEPT !.pc = "fetch", !.token = Some(tok)]
    ELSE [g EXCEPT !.pc = "token"]

\* mutant of AfterRefresh: the loop runs while attempts < 3
AfterRefresh_three(g, caller, tok) ==
    IF caller = "token"
    THEN [g EXCEPT !.pc = "fetch", !.token = Some(tok)]
    ELSE IF g.attempts + 1 < 3
         THEN [g EXCEPT !.pc = "token", !.attempts = g.attempts + 1]
         ELSE [g EXCEPT !.pc = "ret", !.attempts = g.attempts + 1, !.result = Err]

\* where fetch_chunk goes on after refresh() returned Ok(new access token):
\* token() hands it to line 132; the error branch (lines 162-163) counts the
\* attempt and loops, or leaves the loop with Err(Geocaching) (line 167)
AfterRefresh(g, caller, tok) ==
    IF caller = "token"
    THEN [g EXCEPT !.pc = "fetch", !.token = Some(tok)]
    ELSE IF g.attempts + 1 < 2
         THEN [g EXCEPT !.pc = "token", !.attempts = g.attempts + 1]
         ELSE [g EXCEPT !.pc = "ret", !.attempts = g.attempts + 1, !.result = Err]

\* lines 42-44, store_access_token and return
StoreAccess ==
    /\ rf.pc = "store_access"
    /\ settings' = store_access_token(settings, rf.new[1].access_token)
    /\ gs' = AfterRefresh(gs, rf.caller, rf.new[1].access_token)
    /\ rf' = IdleRefresh
    /\ UNCHANGED <<workers, calc, now, geocaches, tiles2, tiles_codes, issued,
                   ds, job, jobs, last_discovery, log>>

----------------------------------------------------------------------------
(* Return to the caller *)

\* the client takes the result of cache.get or of Groundspeak::fetch
GetReturn ==
    /\ gs.pc \in {"ret", "direct"} /\ gs.caller = "top"
    /\ gs' = IdleGet
    /\ log' = <<>>
    /\ UNCHANGED <<workers, calc, now, geocaches, tiles2, tiles_codes, settings, issued,
                   rf, ds, job, jobs, last_discovery>>

\* the client calls cache.get again with the same codes
CallGetAgain ==
    /\ gs.pc = "ret" /\ gs.caller = "top" /\ gs.result.ok /\ gs.first = None
    /\ log' = <<>>
    /\ get(gs.codes, "top",
           Some([result |-> gs.result.val, cutoff |-> gs.cutoff]))
    /\ UNCHANGED <<workers, calc, now, geocaches, tiles2, tiles_codes, settings, issued,
                   rf, ds, job, jobs, last_discovery>>

\* the codes of the records a get upserted: of every reply, the records up
\* to the first one whose save or parse failed
UpsertedCodes(replies) ==
    LET upto(r) ==
          LET failing == {i \in 1..Len(r) :
                            ~(SaveInserts(r[i]) /\ ParseOk(r[i]))}
          IN IF failing = {} THEN Len(r)
             ELSE CHOOSE i \in failing : \A j \in failing : i <= j
    IN UNION {{replies[k][i].code : i \in {j \in 1..upto(replies[k]) :
                                              SaveInserts(replies[k][j])}} :
              k \in 1..Len(replies)}

\* the client calls cache.get again with the same codes after it failed
CallGetRetry ==
    /\ gs.pc = "ret" /\ gs.caller = "top" /\ ~gs.result.ok /\ gs.first = None
    /\ log' = <<>>
    /\ get(gs.codes, "top",
           Some([result |-> <<>>, cutoff |-> gs.cutoff,
                 saved |-> UpsertedCodes(gs.replies)]))
    /\ UNCHANGED <<workers, calc, now, geocaches, tiles2, tiles_codes, settings, issued,
                   rf, ds, job, jobs, last_discovery>>

----------------------------------------------------------------------------
(* Long code lists: chunking *)

\* the lengths around one and two batches
BigLens == {k * BATCH_SIZE + e : k \in 1..2, e \in 0..MaxExtra}

\* the code lists 1, 2, ..., n of these lengths
BigInputs == {[i \in 1..n |-> i] : n \in BigLens}

\* a client calls cache.get with a long code list
CallGetBig ==
    /\ AllIdle
    /\ log' = <<>>
    /\ \E codes \in BigInputs : get(codes, "top", None)
    /\ UNCHANGED <<workers, calc, now, geocaches, tiles2, tiles_codes, settings, issued,
                   rf, ds, job, jobs, last_discovery>>

\* code 2 alone, and code 2 after a full batch of other codes
LateInputs ==
    {<<2>>,
     [i \in 1..(BATCH_SIZE + 1) |-> IF i <= BATCH_SIZE THEN i + 2 ELSE 2]}

\* a caller of cache.get (it is pub; a job passes the codes of its tiles in
\* the order discover gave them) passes one of these lists
CallGetLate ==
    /\ AllIdle
    /\ log' = <<>>
    /\ \E codes \in LateInputs : get(codes, "top", None)
    /\ UNCHANGED <<workers, calc, now, geocaches, tiles2, tiles_codes, settings, issued,
                   rf, ds, job, jobs, last_discovery>>

\* a caller other than fetch_chunk calls Groundspeak::fetch (it is pub) with
\* a code list of any length; nothing is saved
GroundspeakFetch ==
    /\ AllIdle
    /\ \E codes \in (SmallInputs \ {<<>>}) \cup BigInputs :
          \E o \in fetch(0, codes) :
             /\ log' = IF o.sent THEN <<DetailEvent(0, codes)>> ELSE <<>>
             /\ gs' = [IdleGet EXCEPT !.pc = "direct", !.caller = "top",
                                      !.codes = codes, !.result = o.res]
    /\ UNCHANGED <<workers, calc, now, geocaches, tiles2, tiles_codes, settings, issued,
                   rf, ds, job, jobs, last_discovery>>

----------------------------------------------------------------------------
(* cache.rs: Cache::discover *)

\* lines 216-222: the cutoff and the SELECT of the fresh header row; then
\* line 227 (hit) or line 231 (miss)
discover(tile, caller) ==
    LET cutoff == cutoff_of(now)
        q == Key(tile)
        hit == TileFresh(tiles2, q, cutoff)
    IN ds' = [IdleDiscover EXCEPT
                !.pc = IF hit THEN "load" ELSE "image",
                !.caller = caller, !.tile = tile,
                !.ts = IF hit THEN tiles2[q][1] ELSE 0,
                !.at = now, !.row = tiles2[q],
                !.old = <<tiles2, tiles_codes>>, !.start = Len(log')]

\* a client calls cache.discover(tile) (main.rs: codes)
CallDiscover ==
    /\ AllIdle
    /\ log' = <<>>
    /\ \E tile \in Tiles : discover(tile, "top")
    /\ UNCHANGED <<workers, calc, now, geocaches, tiles2, tiles_codes, settings, issued,
                   gs, rf, job, jobs, last_discovery>>

\* lines 227-228: load_gccodes, Ok(Timestamped { ts, data: codes })
DiscoverLoad ==
    /\ ds.pc = "load"
    /\ \E codes \in load_gccodes(tiles_codes, Key(ds.tile)) :
          ds' = [ds EXCEPT !.pc = "ret", !.codes = codes,
                           !.result = Ok([ts |-> ds.ts, data |-> codes])]
    /\ UNCHANGED <<workers, calc, now, geocaches, tiles2, tiles_codes, settings, issued,
                   gs, rf, job, jobs, last_discovery, log>>

\* groundspeak.rs lines 82-87: the map.png request; its error ends discover
DiscoverImage ==
    /\ ds.pc = "image"
    /\ log' = Append(log, TileEvent("map.png", ds.tile))
    /\ \E sent \in BOOLEAN :
          ds' = IF sent THEN [ds EXCEPT !.pc = "info"]
                ELSE [ds EXCEPT !.pc = "ret", !.result = Err]
    /\ UNCHANGED <<workers, calc, now, geocaches, tiles2, tiles_codes, settings, issued,
                   gs, rf, job, jobs, last_discovery>>

\* groundspeak.rs lines 89-107: the map.info request, the pause, the reply
DiscoverInfo ==
    /\ ds.pc = "info"
    /\ log' = Append(log, TileEvent("map.info", ds.tile))
    /\ \E r \in discover_info(ds.tile) :
          ds' = IF r.ok THEN [ds EXCEPT !.pc = "store", !.codes = r.val]
                ELSE [ds EXCEPT !.pc = "ret", !.result = Err]
    /\ UNCHANGED <<workers, calc, now, geocaches, tiles2, tiles_codes, settings, issued,
                   gs, rf, job, jobs, last_discovery>>

\* mutant of DiscoverStore: the statements of store_gccodes run without a
\* transaction, so those before a failed one stay
DiscoverStore_no_tx ==
    /\ ds.pc = "store"
    /\ \E committed \in BOOLEAN :
          LET q == Key(ds.tile)
          IN IF committed
             THEN LET t == store_gccodes(tiles2, tiles_codes, q, ds.codes, now)
                  IN /\ tiles2' = t.t2
                     /\ tiles_codes' = t.tc
                     /\ last_discovery' =
                           [last_discovery EXCEPT
                              ![q] = Some([tile |-> ds.tile, at |-> now,
                                           codes |-> Range(ds.codes)])]
                     /\ ds' = [ds EXCEPT !.pc = "ret",
                                !.result = Ok([ts |-> now, data |-> ds.codes])]
             ELSE /\ tiles2' = [tiles2 EXCEPT ![q] = Some(now)]
                  /\ tiles_codes' = [tiles_codes EXCEPT ![q] = {}]
                  /\ ds' = [ds EXCEPT !.pc = "ret", !.result = Err]
                  /\ UNCHANGED last_discovery
    /\ UNCHANGED <<workers, calc, now, geocaches, settings, issued, gs, rf, job, jobs, log>>

\* cache.rs lines 232-233: store_gccodes in one transaction, then
\* Ok(Timestamped::now(codes)); a failed statement or commit rolls the
\* transaction back and ends discover with the error
DiscoverStore ==
    /\ ds.pc = "store"
    /\ \E committed \in BOOLEAN :
          IF committed
          THEN LET q == Key(ds.tile)
                   t == store_gccodes(tiles2, tiles_codes, q, ds.codes, now)
               IN /\ tiles2' = t.t2
                  /\ tiles_codes' = t.tc
                  /\ last_discovery' =
                        [last_discovery EXCEPT
                           ![q] = Some([tile |-> ds.tile, at |-> now,
                                        codes |-> Range(ds.codes)])]
                  /\ ds' = [ds EXCEPT !.pc = "ret",
                             !.result = Ok([ts |-> now, data |-> ds.codes])]
          ELSE /\ ds' = [ds EXCEPT !.pc = "ret", !.result = Err]
               /\ UNCHANGED <<tiles2, tiles_codes, last_discovery>>
    /\ UNCHANGED <<workers, calc, now, geocaches, settings, issued, gs, rf, job, jobs, log>>

\* the client takes the result of cache.discover
DiscoverReturn ==
    /\ ds.pc = "ret" /\ ds.caller = "top"
    /\ ds' = IdleDiscover
    /\ log' = <<>>
    /\ UNCHANGED <<workers, calc, now, geocaches, tiles2, tiles_codes, settings, issued,
                   gs, rf, job, jobs, last_discovery>>

----------------------------------------------------------------------------
(* job.rs: Job::process_filtered, run by the task that compute_area and *)
(* compute_track spawn                                                   *)

\* the tile lists of a job: distinct tiles, at most MaxTiles of them
TileLists == {s \in SeqsUpTo(Tiles, MaxTiles) :
                \A i, j \in 1..Len(s) : i # j => s[i] # s[j]}

\* codes.push(code.code) for the codes that pass the pre-filter
RECURSIVE PushFiltered(_, _, _)
PushFiltered(codes, kind, data) ==
    IF data = <<>> THEN codes
    ELSE PushFiltered(IF pre_filter(kind, Head(data))
                      THEN Append(codes, Head(data).code) ELSE codes,
                      kind, Tail(data))

\* all_geocaches.into_iter().filter(post_filter).collect()
RECURSIVE Selected(_, _)
Selected(kind, list) ==
    IF list = <<>> THEN <<>>
    ELSE (IF post_filter(kind, Head(list)) THEN <<Head(list)>> ELSE <<>>)
         \o Selected(kind, Tail(list))

\* track.rs lines 22-28, area.rs: Job::new(), jobs.add(job), tokio::spawn
StartJob ==
    /\ AllIdle
    /\ Len(jobs) < MaxJobs
    /\ \E kind \in {"area", "track"}, tiles \in TileLists :
          /\ jobs' = Append(jobs, NewJob(kind, tiles))
          /\ job' = [IdleJob EXCEPT !.pc = "loop", !.id = Len(jobs) + 1,
                                    !.kind = kind, !.tiles = tiles]
    /\ log' = <<>>
    /\ UNCHANGED <<workers, calc, now, geocaches, tiles2, tiles_codes, settings, issued,
                   gs, rf, ds, last_discovery>>

\* the tile lists of jobs whose tiles overlap
OrderTileLists == {<<TileB>>, <<TileC, TileB>>, <<TileB, TileC>>}

\* track.rs lines 22-28, area.rs: a job is submitted after another one has
\* ended
StartNextJob ==
    /\ AllIdle
    /\ Len(jobs) < MaxOrderJobs
    /\ \E kind \in {"area", "track"}, tiles \in OrderTileLists :
          /\ jobs' = Append(jobs, NewJob(kind, tiles))
          /\ job' = [IdleJob EXCEPT !.pc = "loop", !.id = Len(jobs) + 1,
                                    !.kind = kind, !.tiles = tiles]
    /\ log' = <<>>
    /\ UNCHANGED <<workers, calc, now, geocaches, tiles2, tiles_codes, settings,
                   issued, gs, rf, ds, last_discovery>>

\* lines 77-84: the next tile: set_message, then cache.discover(&tile)
JobDiscover ==
    /\ job.pc = "loop" /\ job.index < Len(job.tiles)
    /\ log' = log
    /\ LET tile == job.tiles[job.index + 1]
           m == DiscoverMessage(job.index, Len(job.tiles), tile)
       IN /\ jobs' = [jobs EXCEPT ![job.id].state = set_message(@, m),
                                  ![job.id].msgs = Append(@, m)]
          /\ discover(tile, "job")
    /\ job' = [job EXCEPT !.pc = "discover"]
    /\ UNCHANGED <<workers, calc, now, geocaches, tiles2, tiles_codes, settings, issued,
                   gs, rf, last_discovery>>

\* lines 84-88: unwrap() of the result of discover: Err panics and ends the
\* task; Ok adds the codes that pass the pre-filter
JobDiscovered ==
    /\ job.pc = "discover" /\ ds.pc = "ret" /\ ds.caller = "job"
    /\ ds' = IdleDiscover
    /\ IF ds.result.ok
       THEN /\ job' = [job EXCEPT !.pc = "loop", !.index = job.index + 1,
                          !.codes = PushFiltered(job.codes, job.kind,
                                                 ds.result.val.data)]
            /\ jobs' = [jobs EXCEPT ![job.id].seen = @ \o ds.result.val.data]
       ELSE /\ job' = IdleJob
            /\ jobs' = [jobs EXCEPT ![job.id].task = "panicked"]
    /\ UNCHANGED <<workers, calc, now, geocaches, tiles2, tiles_codes, settings, issued,
                   gs, rf, last_discovery, log>>

\* mutant of JobDownload: the download does not wait for the last tile
JobDownload_early ==
    /\ job.pc = "loop" /\ job.index <= Len(job.tiles)
    /\ log' = log
    /\ LET m == DownloadingMessage(Len(job.codes))
       IN jobs' = [jobs EXCEPT ![job.id].state = set_message(@, m),
                               ![job.id].msgs = Append(@, m)]
    /\ get(job.codes, "job", None)
    /\ job' = [job EXCEPT !.pc = "get"]
    /\ UNCHANGED <<workers, calc, now, geocaches, tiles2, tiles_codes, settings, issued,
                   rf, ds, last_discovery>>

\* mutant of JobDownload: the download starts only after a tile
JobDownload_after_tile ==
    /\ job.pc = "loop" /\ job.index = Len(job.tiles) /\ job.index > 0
    /\ log' = log
    /\ LET m == DownloadingMessage(Len(job.codes))
       IN jobs' = [jobs EXCEPT ![job.id].state = set_message(@, m),
                               ![job.id].msgs = Append(@, m)]
    /\ get(job.codes, "job", None)
    /\ job' = [job EXCEPT !.pc = "get"]
    /\ UNCHANGED <<workers, calc, now, geocaches, tiles2, tiles_codes, settings, issued,
                   rf, ds, last_discovery>>

\* lines 91-92: after the last tile: set_message, then cache.get(codes)
JobDownload ==
    /\ job.pc = "loop" /\ job.index = Len(job.tiles)
    /\ log' = log
    /\ LET m == DownloadingMessage(Len(job.codes))
       IN jobs' = [jobs EXCEPT ![job.id].state = set_message(@, m),
                               ![job.id].msgs = Append(@, m)]
    /\ get(job.codes, "job", None)
    /\ job' = [job EXCEPT !.pc = "get"]
    /\ UNCHANGED <<workers, calc, now, geocaches, tiles2, tiles_codes, settings, issued,
                   rf, ds, last_discovery>>

\* mutant of JobPublish: the list is stored, the message is left for later
JobPublish_list_only ==
    /\ job.pc = "get" /\ gs.pc = "ret" /\ gs.caller = "job"
    /\ gs' = IdleGet
    /\ job' = IdleJob
    /\ IF gs.result.ok
       THEN LET selected == Selected(job.kind, gs.result.val)
            IN jobs' = [jobs EXCEPT
                          ![job.id].state.geocaches = selected,
                          ![job.id].task = "finished"]
       ELSE jobs' = [jobs EXCEPT ![job.id].task = "panicked"]
    /\ UNCHANGED <<workers, calc, now, geocaches, tiles2, tiles_codes, settings, issued,
                   rf, ds, last_discovery, log>>

\* mutant of JobPublish: an error of cache.get publishes the empty list
JobPublish_lenient ==
    /\ job.pc = "get" /\ gs.pc = "ret" /\ gs.caller = "job"
    /\ gs' = IdleGet
    /\ job' = IdleJob
    /\ LET selected == Selected(job.kind, gs.result.val)
       IN jobs' = [jobs EXCEPT
                     ![job.id].state = [geocaches |-> selected,
                                        message |-> Finished],
                     ![job.id].msgs = Append(@, Finished),
                     ![job.id].task = IF gs.result.ok THEN "finished"
                                      ELSE "panicked"]
    /\ UNCHANGED <<workers, calc, now, geocaches, tiles2, tiles_codes, settings, issued,
                   rf, ds, last_discovery, log>>

\* lines 92-103: unwrap() of the result of get: Err panics and ends the
\* task; Ok filters the list and publishes it together with "Finished"
\* under one lock of the state
JobPublish ==
    /\ job.pc = "get" /\ gs.pc = "ret" /\ gs.caller = "job"
    /\ gs' = IdleGet
    /\ job' = IdleJob
    /\ IF gs.result.ok
       THEN LET selected == Selected(job.kind, gs.result.val)
            IN jobs' = [jobs EXCEPT
                          ![job.id].state = [geocaches |-> selected,
                                             message |-> Finished],
                          ![job.id].msgs = Append(@, Finished),
                          ![job.id].task = "finished"]
       ELSE jobs' = [jobs EXCEPT ![job.id].task = "panicked"]
    /\ UNCHANGED <<workers, calc, now, geocaches, tiles2, tiles_codes, settings, issued,
                   rf, ds, last_discovery, log>>

----------------------------------------------------------------------------
(* Concurrent request handlers: Cache::discover                            *)
(*                                                                         *)
(* Every handler has its own Cache and takes connections from a pool, so   *)
(* the statements of two handlers interleave.  store_gccodes runs in a     *)
(* transaction at the default isolation level of the database (read        *)
(* committed): a statement sees the rows committed before it starts, and   *)
(* it waits for a row that another open transaction has deleted or         *)
(* upserted.                                                               *)

\* the tiles the concurrent handlers ask for
RaceTiles == {TileC}

Running(w) == workers[w].pc \notin {"idle", "ret"}

\* worker v runs a call for the key q
Peer(v, op, q) ==
    /\ Running(v) /\ workers[v].op = op /\ workers[v].q = q

\* cache.rs lines 216-222: the cutoff and the SELECT of the fresh header row
WDiscover(w) ==
    /\ ~Running(w)
    /\ \E tile \in RaceTiles :
          LET q == TileKeys[tile]
              hit == TileFresh(tiles2, q, cutoff_of(now))
              peers == {v \in Workers \ {w} : Peer(v, "discover", q)}
          IN workers' =
                [v \in Workers |->
                   IF v = w
                   THEN [IdleWorker EXCEPT
                           !.pc = IF hit THEN "load" ELSE "upstream",
                           !.op = "discover", !.tile = tile, !.q = q,
                           !.ts = IF hit THEN tiles2[q][1] ELSE 0,
                           !.raced = peers # {}]
                   ELSE IF v \in peers THEN [workers[v] EXCEPT !.raced = TRUE]
                   ELSE workers[v]]
    /\ UNCHANGED <<calc, now, geocaches, tiles2, tiles_codes, settings, issued,
                   gs, rf, ds, job, jobs, last_discovery, log>>

\* cache.rs lines 227-228: load_gccodes, Ok(Timestamped { ts, data: codes })
WLoad(w) ==
    /\ workers[w].pc = "load"
    /\ \E codes \in load_gccodes(tiles_codes, workers[w].q) :
          workers' = [workers EXCEPT ![w].pc = "ret", ![w].codes = codes,
                         ![w].result = Ok([ts |-> workers[w].ts, data |-> codes])]
    /\ UNCHANGED <<calc, now, geocaches, tiles2, tiles_codes, settings, issued,
                   gs, rf, ds, job, jobs, last_discovery, log>>

\* cache.rs line 231, Groundspeak::discover: the map.png and the map.info
\* request, the pause, the reply
WUpstream(w) ==
    /\ workers[w].pc = "upstream"
    /\ \E r \in discover_info(workers[w].tile) :
          workers' = IF r.ok
                     THEN [workers EXCEPT ![w].pc = "delete", ![w].codes = r.val,
                                          ![w].asked = TRUE]
                     ELSE [workers EXCEPT ![w].pc = "ret", ![w].result = Err,
                                          ![w].asked = TRUE]
    /\ UNCHANGED <<calc, now, geocaches, tiles2, tiles_codes, settings, issued,
                   gs, rf, ds, job, jobs, last_discovery, log>>

\* store_gccodes lines 263-267: begin, DELETE FROM tiles_codes WHERE id = $1.
\* The statement removes the committed rows of the tile; it waits while
\* another open transaction has deleted rows of the tile.
WDelete(w) ==
    /\ workers[w].pc = "delete"
    /\ \A v \in Workers \ {w} :
          ~(/\ workers[v].pc \in {"header", "commit"}
            /\ workers[v].q = workers[w].q
            /\ workers[v].del # {})
    /\ workers' = [workers EXCEPT ![w].pc = "header",
                                  ![w].del = tiles_codes[workers[w].q]]
    /\ UNCHANGED <<calc, now, geocaches, tiles2, tiles_codes, settings, issued,
                   gs, rf, ds, job, jobs, last_discovery, log>>

\* store_gccodes lines 268-271: the upsert of the header row with
\* ts = Utc::now().  It waits while another open transaction has upserted
\* the header row of the tile.
WHeader(w) ==
    /\ workers[w].pc = "header"
    /\ \A v \in Workers \ {w} :
          ~(/\ workers[v].pc = "commit"
            /\ workers[v].q = workers[w].q)
    /\ workers' = [workers EXCEPT ![w].pc = "commit", ![w].ts = now]
    /\ UNCHANGED <<calc, now, geocaches, tiles2, tiles_codes, settings, issued,
                   gs, rf, ds, job, jobs, last_discovery, log>>

\* store_gccodes lines 272-288: the upserts of the code rows and the commit:
\* the rows the DELETE removed go, the upserted rows are written; a failed
\* statement or commit rolls the transaction back.  Then cache.rs line 233.
WCommit(w) ==
    /\ workers[w].pc = "commit"
    /\ \E committed \in BOOLEAN :
          IF committed
          THEN LET q == workers[w].q
               IN /\ tiles2' = [tiles2 EXCEPT ![q] = Some(workers[w].ts)]
                  /\ tiles_codes' =
                        [tiles_codes EXCEPT
                           ![q] = UpsertAll(@ \ workers[w].del, workers[w].codes)]
                  /\ last_discovery' =
                        [last_discovery EXCEPT
                           ![q] = Some([tile |-> workers[w].tile,
                                        at |-> workers[w].ts,
                                        codes |-> Range(workers[w].codes)])]
                  /\ workers' = [workers EXCEPT
                                   ![w].pc = "ret", ![w].wrote = TRUE,
                                   ![w].result = Ok([ts |-> now,
                                                     data |-> workers[w].codes])]
          ELSE /\ workers' = [workers EXCEPT ![w].pc = "ret", ![w].result = Err]
               /\ UNCHANGED <<tiles2, tiles_codes, last_discovery>>
    /\ UNCHANGED <<calc, now, geocaches, settings, issued,
                   gs, rf, ds, job, jobs, log>>

----------------------------------------------------------------------------
(* Concurrent request handlers: AuthProvider::refresh                      *)
(*                                                                         *)
(* The statements of refresh() run one by one on pooled connections, each  *)
(* in its own implicit transaction.                                        *)

\* the handler is the only one that is in a call
Alone(w) == \A v \in Workers \ {w} : ~Running(v)

\* mutant of WToken: the stored token is never used, token() refreshes
WToken_eager(w) ==
    /\ ~Running(w)
    /\ workers' = [workers EXCEPT ![w] =
          [IdleWorker EXCEPT !.pc = "refresh", !.op = "token",
                             !.before = Some(settings),
                             !.miss = (settings.access_token = None)]]
    /\ UNCHANGED <<calc, now, geocaches, tiles2, tiles_codes, settings, issued,
                   gs, rf, ds, job, jobs, last_discovery, log>>

\* tokencache.rs lines 30-36, token(): load_access_token; fetch_one fails
\* without a row and when the database fails; Err(_) invokes refresh()
WToken(w) ==
    /\ ~Running(w)
    /\ \E dbfails \in BOOLEAN :
          LET found == settings.access_token # None /\ ~dbfails
          IN workers' = [workers EXCEPT ![w] =
                IF found
                THEN [IdleWorker EXCEPT !.pc = "ret", !.op = "token",
                                        !.before = Some(settings),
                                        !.result = Ok(settings.access_token[1])]
                ELSE [IdleWorker EXCEPT !.pc = "refresh", !.op = "token",
                                        !.before = Some(settings),
                                        !.miss = TRUE]]
    /\ UNCHANGED <<calc, now, geocaches, tiles2, tiles_codes, settings, issued,
                   gs, rf, ds, job, jobs, last_discovery, log>>

\* refresh() line 39, load_refresh_token: fetch_one fails without a row and
\* when the database fails; the ? returns the error
refresh_load(wk, dbfails) ==
    IF settings.refresh_token = None \/ dbfails
    THEN [wk EXCEPT !.pc = "ret", !.invoked = TRUE, !.result = Err]
    ELSE [wk EXCEPT !.pc = "call", !.invoked = TRUE,
                    !.old = settings.refresh_token]

\* tokencache.rs line 34: token() invokes refresh()
WTokenRefresh(w) ==
    /\ workers[w].pc = "refresh"
    /\ \E dbfails \in BOOLEAN :
          workers' = [workers EXCEPT ![w] = refresh_load(workers[w], dbfails)]
    /\ UNCHANGED <<calc, now, geocaches, tiles2, tiles_codes, settings, issued,
                   gs, rf, ds, job, jobs, last_discovery, log>>

\* a handler invokes refresh() (as fetch_chunk does after a failed detail
\* call): tokencache.rs line 39
WRefresh(w) ==
    /\ ~Running(w)
    /\ \E dbfails \in BOOLEAN :
       LET peers == {v \in Workers \ {w} : Peer(v, "refresh", 0)}
           wk == [IdleWorker EXCEPT !.op = "refresh", !.raced = peers # {},
                                    !.before = Some(settings)]
       IN workers' =
             [v \in Workers |->
                IF v = w THEN refresh_load(wk, dbfails)
                ELSE IF v \in peers THEN [workers[v] EXCEPT !.raced = TRUE]
                ELSE workers[v]]
    /\ UNCHANGED <<calc, now, geocaches, tiles2, tiles_codes, settings, issued,
                   gs, rf, ds, job, jobs, last_discovery, log>>

\* mutant of WCall: a non-2xx reply is taken for a pair of empty tokens
WCall_lenient(w) ==
    /\ workers[w].pc = "call"
    /\ \/ /\ issued < MaxIssue
          /\ issued' = issued + 1
          /\ workers' = [workers EXCEPT
                           ![w].pc = "store_refresh", ![w].asked = TRUE,
                           ![w].reply = "2xx",
                           ![w].new = Some([access_token |-> issued + 1,
                                            refresh_token |-> issued + 1])]
       \/ /\ workers' = [workers EXCEPT
                           ![w].pc = "store_refresh", ![w].asked = TRUE,
                           ![w].reply = "non-2xx",
                           ![w].new = Some([access_token |-> 0,
                                            refresh_token |-> 0])]
          /\ UNCHANGED issued
    /\ UNCHANGED <<calc, now, geocaches, tiles2, tiles_codes, settings,
                   gs, rf, ds, job, jobs, last_discovery, log>>

\* line 40, call_groundspeak (lines 61-99): a 2xx reply carries a new pair
\* of tokens; a non-2xx reply is Err(Geocaching); a 2xx reply whose body is
\* no JSON or lacks a token ends the call with the error or the panic of
\* lines 89-91
WCall(w) ==
    /\ workers[w].pc = "call"
    /\ \/ /\ issued < MaxIssue
          /\ issued' = issued + 1
          /\ workers' = [workers EXCEPT
                           ![w].pc = "store_refresh", ![w].asked = TRUE,
                           ![w].reply = "2xx",
                           ![w].new = Some([access_token |-> issued + 1,
                                            refresh_token |-> issued + 1])]
       \/ /\ \E reply \in {"non-2xx", "2xx without tokens"} :
                workers' = [workers EXCEPT ![w].pc = "ret", ![w].asked = TRUE,
                                           ![w].reply = reply]
          /\ UNCHANGED issued
    /\ UNCHANGED <<calc, now, geocaches, tiles2, tiles_codes, settings,
                   gs, rf, ds, job, jobs, last_discovery, log>>

\* line 41, store_refresh_token; the ? returns the error of a failed upsert
WStoreRefresh(w) ==
    /\ workers[w].pc = "store_refresh"
    /\ \E dbfails \in BOOLEAN :
          IF dbfails
          THEN /\ workers' = [workers EXCEPT ![w].pc = "ret"]
               /\ UNCHANGED settings
          ELSE /\ settings' = store_refresh_token(settings,
                                   workers[w].new[1].refresh_token)
               /\ workers' = [workers EXCEPT ![w].pc = "store_access"]
    /\ UNCHANGED <<calc, now, geocaches, tiles2, tiles_codes, issued,
                   gs, rf, ds, job, jobs, last_discovery, log>>

\* lines 42-44, store_access_token and Ok(new_access_token); the ? returns
\* the error of a failed upsert
WStoreAccess(w) ==
    /\ workers[w].pc = "store_access"
    /\ \E dbfails \in BOOLEAN :
          IF dbfails
          THEN /\ workers' = [workers EXCEPT ![w].pc = "ret"]
               /\ UNCHANGED settings
          ELSE /\ settings' = store_access_token(settings,
                                   workers[w].new[1].access_token)
               /\ workers' = [workers EXCEPT
                                ![w].pc = "ret", ![w].wrote = TRUE,
                                ![w].result = Ok(workers[w].new[1].access_token)]
    /\ UNCHANGED <<calc, now, geocaches, tiles2, tiles_codes, issued,
                   gs, rf, ds, job, jobs, last_discovery, log>>

\* token() and refresh(), called by one handler at a time
SeqToken(w) == Alone(w) /\ WToken(w)

SeqRefresh(w) == Alone(w) /\ WRefresh(w)

----------------------------------------------------------------------------
(* tile.rs: Tile::quadkey, evaluated on its own *)

\* zoom levels: the shallow ones, the zooms of the planners, and the zooms
\* around the one at which 2 * z bits fill a u32
ZoomLevels == {0, 1, 2, 12, 14} \cup (15..MaxZoom)

\* tile coordinates: small ones and the powers of two around bit 16
TileCoords == {0, 1, 2, 2 ^ 14, 2 ^ 15, 2 ^ 16, 2 ^ 17}

\* the tiles with x, y < 2^z
SampleTiles(z) ==
    {Tile(x, y, z) : x, y \in {c \in TileCoords : c < 2 ^ z}}

\* a caller holds two tiles of one zoom
QuadkeyPick ==
    /\ calc.op = "none"
    /\ \E z \in ZoomLevels : \E a, b \in SampleTiles(z) :
          calc' = [op |-> "quadkey", args |-> <<a, b>>, out |-> <<>>]
    /\ UNCHANGED <<workers, now, geocaches, tiles2, tiles_codes, settings,
                   issued, gs, rf, ds, job, jobs, last_discovery, log>>

\* tile.quadkey() for both, and tile.quadkey() as i32 as cache.rs binds it
QuadkeyApply ==
    /\ calc.op = "quadkey" /\ calc.out = <<>>
    /\ calc' = [calc EXCEPT
                  !.out = [i \in 1..2 |->
                             [quadkey |-> quadkey(calc.args[i]),
                              key |-> as_i32(quadkey(calc.args[i]))]]]
    /\ UNCHANGED <<workers, now, geocaches, tiles2, tiles_codes, settings,
                   issued, gs, rf, ds, job, jobs, last_discovery, log>>

\* the caller drops the values
QuadkeyDone ==
    /\ calc.op = "quadkey" /\ calc.out # <<>>
    /\ calc' = IdleCalc
    /\ UNCHANGED <<workers, now, geocaches, tiles2, tiles_codes, settings,
                   issued, gs, rf, ds, job, jobs, last_discovery, log>>

----------------------------------------------------------------------------
(* utfgrid.rs: UtfGrid.  A reply of map.info is deserialized into          *)
(* grid, of which only the number of rows and the length of the first row  *)
(* are read, and data, a map from the key "(x,y)" of a pixel to an array   *)
(* of DataObject { i }.  A grid is modelled as the sequence of the lengths *)
(* of its rows, a key as the pair of numbers it spells, a DataObject as    *)
(* its code.                                                               *)

\* a panic of the decoding task
Panic == [ok |-> FALSE, val |-> "panic"]

\* the builds: overflow checks on (debug) or off (release)
Builds == {"debug", "release"}

\* a grid of h rows of w characters
GridOf(w, h) == [i \in 1..h |-> w]

\* an empty grid array, one empty row, one character, and buffers of pixels
Grids == {<<>>, GridOf(0, 1), GridOf(1, 1), GridOf(2, 2),
          GridOf(GridSide, GridSide)}

PixelKeys == {<<0, 0>>, <<1, 0>>, <<1, 1>>, <<GridSide - 1, GridSide - 1>>}

GridCodes == {1, 2}

\* the value arrays of data: empty, one code, two codes of one pixel
ValueArrays == {<<>>, <<1>>, <<2>>, <<1, 2>>}

\* the key names a pixel of the grid (all rows are of equal length)
Inside(grid, key) ==
    /\ key[2] < Len(grid)
    /\ key[1] < grid[1]

\* the entries of data whose value array has exactly one element
Singles(data) == {k \in DOMAIN data : Len(data[k]) = 1}

\* the replies of the tile server: the keys that carry one code name pixels
\* of the grid
GridReplies ==
    {r \in {[grid |-> g, data |-> d] :
               g \in Grids,
               d \in UNION {[K -> ValueArrays] : K \in SUBSET PixelKeys}} :
        \A k \in Singles(r.data) : Inside(r.grid, k)}

\* utfgrid.rs lines 23-25: self.grid[0].len(), an index panic on an empty
\* grid array
width(self) == IF self.grid = <<>> THEN Panic ELSE Ok(self.grid[1])

\* utfgrid.rs lines 27-29
height(self) == Len(self.grid)

\* the value usize::MAX = 2^64 - 1, which no computation of the model reads
usize_MAX == "usize::MAX"

\* utfgrid.rs lines 45-46, n - 1 on usize: at 0 the subtraction panics with
\* overflow checks and wraps without them
minus_one(n, build) ==
    IF n > 0 THEN Ok(n - 1)
    ELSE IF build = "debug" THEN Panic ELSE Ok(usize_MAX)

\* utfgrid.rs lines 35-41: the key "(x,y)" parsed into two u8, a panic of
\* unwrap when a number does not fit
extract_x_y(key) ==
    IF key[1] < 256 /\ key[2] < 256 THEN Ok(key) ELSE Panic

\* mutant of into_iter: the first element of every non-empty array counts
into_iter_first(self) ==
    {<<extract_x_y(k), self.data[k][1]>> :
        k \in {e \in DOMAIN self.data : Len(self.data[e]) >= 1}}

\* utfgrid.rs lines 70-81, IntoIterator: the entries with one element, as
\* ((x, y), code)
into_iter(self) ==
    {<<extract_x_y(k), self.data[k][1]>> :
        k \in {e \in DOMAIN self.data : Len(self.data[e]) = 1}}

\* utfgrid.rs lines 91-98
MinMax_new(x, y) == [min_x |-> x, max_x |-> x, min_y |-> y, max_y |-> y]

Max(a, b) == IF a > b THEN a ELSE b

\* utfgrid.rs lines 100-105
MinMax_update(self, x, y) ==
    [min_x |-> Min(self.min_x, x), max_x |-> Max(self.max_x, x),
     min_y |-> Min(self.min_y, y), max_y |-> Max(self.max_y, y)]

\* utfgrid.rs lines 50-54: entry(gccode).or_insert(MinMax::new(x, y)) and
\* update(x, y) over the items in the order todo
RECURSIVE Collect(_, _)
Collect(todo, acc) ==
    IF todo = <<>> THEN acc
    ELSE LET x == Head(todo)[1].val[1]
             y == Head(todo)[1].val[2]
             gccode == Head(todo)[2]
             entry == IF gccode \in DOMAIN acc THEN acc[gccode]
                      ELSE MinMax_new(x, y)
         IN Collect(Tail(todo),
                    [c \in DOMAIN acc \cup {gccode} |->
                       IF c = gccode THEN MinMax_update(entry, x, y)
                       ELSE acc[c]])

\* utfgrid.rs lines 107-113, mid_x and mid_y: the sum is a u8 addition, which
\* panics above 255 with overflow checks and wraps without them; the value
\* is the half of the number returned
mid(max, min, build) ==
    IF max + min < 256 THEN Ok(max + min)
    ELSE IF build = "debug" THEN Panic ELSE Ok((max + min) % 256)

\* the f64 quotient (mid2 / 2) / size
Fraction(mid2, size) == [mid2 |-> mid2, size |-> size]

\* tile.rs lines 89-94: the coordinate at the fraction (x, y) of the tile
utf_grid_offset(tile, x, y) == [tile |-> tile, x |-> x, y |-> y]

\* utfgrid.rs lines 44-67, parse: the iteration orders of the two hash maps
\* are todo (of data) and order (of the collected codes)
UtfGrid_parse(self, tile, build, todo, order) ==
    IF ~width(self).ok THEN Panic
    ELSE LET x_size == minus_one(width(self).val, build)
             y_size == minus_one(height(self), build)
             gccodes_with_offset == Collect(todo, <<>>)
             mids == [c \in DOMAIN gccodes_with_offset |->
                        LET value == gccodes_with_offset[c]
                        IN [x |-> mid(value.max_x, value.min_x, build),
                            y |-> mid(value.max_y, value.min_y, build)]]
         IN IF ~x_size.ok \/ ~y_size.ok THEN Panic
            ELSE IF \E k \in Range(todo) : ~k[1].ok THEN Panic
            ELSE IF \E c \in DOMAIN mids : ~mids[c].x.ok \/ ~mids[c].y.ok
                 THEN Panic
            ELSE Ok([i \in 1..Len(order) |->
                       GcCode(order[i],
                              Some(utf_grid_offset(tile,
                                     Fraction(mids[order[i]].x.val, x_size.val),
                                     Fraction(mids[order[i]].y.val, y_size.val))))])

\* groundspeak.rs line 104: a reply of the tile server is deserialized
GridPick ==
    /\ calc.op = "none"
    /\ \E reply \in GridReplies :
          calc' = [op |-> "parse", args |-> reply, out |-> <<>>]
    /\ UNCHANGED <<workers, now, geocaches, tiles2, tiles_codes, settings,
                   issued, gs, rf, ds, job, jobs, last_discovery, log>>

\* groundspeak.rs line 105: grid.parse(&tile)
GridParse ==
    /\ calc.op = "parse" /\ calc.out = <<>>
    /\ \E build \in Builds :
       \E todo \in Perms(into_iter(calc.args)) :
       \E order \in Perms({item[2] : item \in into_iter(calc.args)}) :
          calc' = [calc EXCEPT
                     !.out = <<UtfGrid_parse(calc.args, TileB, build,
                                             todo, order)>>]
    /\ UNCHANGED <<workers, now, geocaches, tiles2, tiles_codes, settings,
                   issued, gs, rf, ds, job, jobs, last_discovery, log>>

\* the codes are handed on, or the task has panicked
GridDone ==
    /\ calc.op = "parse" /\ calc.out # <<>>
    /\ calc' = IdleCalc
    /\ UNCHANGED <<workers, now, geocaches, tiles2, tiles_codes, settings,
                   issued, gs, rf, ds, job, jobs, last_discovery, log>>

----------------------------------------------------------------------------
(* tile.rs: Tile::around *)

\* tile.rs lines 59 and 60, the range c - 1..=c + 1 over u32: at c = 0 the
\* subtraction panics with overflow checks, and wraps to u32::MAX without
\* them, which makes the range u32::MAX..=1 empty
around_range(c, build) ==
    IF c > 0 THEN Ok(<<c - 1, c, c + 1>>)
    ELSE IF build = "debug" THEN Panic ELSE Ok(<<>>)

\* tile.rs lines 57-65, Tile::around: for x in the range of self.x, for y in
\* the range of self.y, push Tile { x, y, z }
around(self, build) ==
    LET xs == around_range(self.x, build)
        ys == around_range(self.y, build)
    IN IF ~xs.ok THEN Panic
       ELSE IF xs.val # <<>> /\ ~ys.ok THEN Panic
       ELSE LET n == IF ys.ok THEN Len(ys.val) ELSE 0
            IN Ok([i \in 1..(Len(xs.val) * n) |->
                     Tile(xs.val[((i - 1) \div n) + 1],
                          ys.val[((i - 1) % n) + 1], self.z)])

\* a caller holds a tile with x, y < 2^z
AroundPick ==
    /\ calc.op = "none"
    /\ \E z \in ZoomLevels : \E t \in SampleTiles(z) :
          calc' = [op |-> "around", args |-> t, out |-> <<>>]
    /\ UNCHANGED <<workers, now, geocaches, tiles2, tiles_codes, settings,
                   issued, gs, rf, ds, job, jobs, last_discovery, log>>

\* tile.around()
AroundApply ==
    /\ calc.op = "around" /\ calc.out = <<>>
    /\ \E build \in Builds :
          calc' = [calc EXCEPT !.out = <<around(calc.args, build)>>]
    /\ UNCHANGED <<workers, now, geocaches, tiles2, tiles_codes, settings,
                   issued, gs, rf, ds, job, jobs, last_discovery, log>>

\* the caller drops the tiles, or has panicked
AroundDone ==
    /\ calc.op = "around" /\ calc.out # <<>>
    /\ calc' = IdleCalc
    /\ UNCHANGED <<workers, now, geocaches, tiles2, tiles_codes, settings,
                   issued, gs, rf, ds, job, jobs, last_discovery, log>>

----------------------------------------------------------------------------
(* tile.rs: Tile::near.  A coordinate is kept as the point of the Web      *)
(* Mercator square it projects to, in units of which 2^MercatorBits span   *)
(* the world: mx grows with the longitude, my grows towards the south.     *)

Coordinate(mx, my) == [mx |-> mx, my |-> my]

\* tile.rs lines 20-26, from_coordinates: the fraction of the world, scaled
\* by 2^z and truncated by `as u32`
from_coordinates(coord, z) ==
    Tile(coord.mx \div 2 ^ (MercatorBits - z),
         coord.my \div 2 ^ (MercatorBits - z), z)

\* coordinate.rs lines 18-45, project: the point at the distance d (in
\* units of the square) on the bearing 315 (north-west) or 135 (south-east)
project(self, d, bearing) ==
    IF bearing = 315 THEN Coordinate(self.mx - d, self.my - d)
    ELSE Coordinate(self.mx + d, self.my + d)

\* the loops of Tile::near, for x in x0..=x1 { for y in y0..=y1 { insert } }
RECURSIVE near_loop(_, _, _, _, _, _)
near_loop(x, y, y0, x1, y1, result) ==
    IF x > x1 THEN result
    ELSE IF y > y1 THEN near_loop(x + 1, y0, y0, x1, y1, result)
    ELSE near_loop(x, y + 1, y0, x1, y1,
                   result \cup {Tile(x, y, DEFAULT_ZOOM)})

\* mutant of Tile_near: the ranges leave out the bottom right tile's x and y
Tile_near_exclusive(coordinate, radius) ==
    LET top_left == project(coordinate, radius, 315)
        bottom_right == project(coordinate, radius, 135)
        top_left_tile == from_coordinates(top_left, DEFAULT_ZOOM)
        bottom_right_tile == from_coordinates(bottom_right, DEFAULT_ZOOM)
    IN near_loop(top_left_tile.x, top_left_tile.y, top_left_tile.y,
                 bottom_right_tile.x - 1, bottom_right_tile.y - 1, {})

\* tile.rs lines 67-87, Tile::near: the HashSet of the tiles, which is
\* collected into a Vec in the order of its iteration
Tile_near(coordinate, radius) ==
    LET top_left == project(coordinate, radius, 315)
        bottom_right == project(coordinate, radius, 135)
        top_left_tile == from_coordinates(top_left, DEFAULT_ZOOM)
        bottom_right_tile == from_coordinates(bottom_right, DEFAULT_ZOOM)
    IN near_loop(top_left_tile.x, top_left_tile.y, top_left_tile.y,
                 bottom_right_tile.x, bottom_right_tile.y, {})

\* the centers of the areas: points in the tiles (1..3, 1..3) of the default
\* zoom; the radii: none, up to 2 units, and a negative one
NearCenters ==
    LET side == 2 ^ (MercatorBits - DEFAULT_ZOOM)
    IN {Coordinate(mx, my) : mx, my \in side..(3 * side)}

NearRadii == -1..2

\* area.rs line 11: Tile::near(coordinate, radius) of a request
NearPick ==
    /\ calc.op = "none"
    /\ \E c \in NearCenters, r \in NearRadii :
          calc' = [op |-> "near", args |-> [coordinate |-> c, radius |-> r],
                   out |-> <<>>]
    /\ UNCHANGED <<workers, now, geocaches, tiles2, tiles_codes, settings,
                   issued, gs, rf, ds, job, jobs, last_discovery, log>>

\* tile.rs line 86: result.into_iter().collect()
NearApply ==
    /\ calc.op = "near" /\ calc.out = <<>>
    /\ \E order \in Perms(Tile_near(calc.args.coordinate, calc.args.radius)) :
          calc' = [calc EXCEPT !.out = <<order>>]
    /\ UNCHANGED <<workers, now, geocaches, tiles2, tiles_codes, settings,
                   issued, gs, rf, ds, job, jobs, last_discovery, log>>

\* the job over the tiles is created
NearDone ==
    /\ calc.op = "near" /\ calc.out # <<>>
    /\ calc' = IdleCalc
    /\ UNCHANGED <<workers, now, geocaches, tiles2, tiles_codes, settings,
                   issued, gs, rf, ds, job, jobs, last_discovery, log>>

----------------------------------------------------------------------------
(* area.rs, track.rs: compute_area, compute_track.  The request handler    *)
(* and the task it spawns run concurrently.                                 *)

\* the tile lists of the planned jobs: none (an empty track), one tile, two
PlanTileLists == {<<>>, <<TileB>>, <<TileC, TileB>>}

\* area.rs lines 7-9, track.rs lines 22-24: Job::new(), jobs.add(job.clone());
\* the task is not spawned yet
PlanAdd(w) ==
    /\ workers[w].pc = "idle"
    /\ Len(jobs) < MaxJobs
    /\ \E kind \in {"area", "track"}, tiles \in PlanTileLists :
          jobs' = Append(jobs, [NewJob(kind, tiles) EXCEPT !.task = "unspawned"])
    /\ workers' = [workers EXCEPT ![w] = [IdleWorker EXCEPT
                       !.pc = "spawn", !.op = "compute", !.id = Len(jobs) + 1]]
    /\ UNCHANGED <<calc, now, geocaches, tiles2, tiles_codes, settings, issued,
                   gs, rf, ds, job, last_discovery, log>>

\* area.rs line 12, track.rs line 25: tokio::task::spawn; the task starts
\* with Cache::new_lite()
PlanSpawn(w) ==
    /\ workers[w].pc = "spawn"
    /\ AllIdle
    /\ LET id == workers[w].id
       IN /\ job' = [IdleJob EXCEPT !.pc = "new_lite", !.id = id,
                                    !.kind = jobs[id].kind,
                                    !.tiles = jobs[id].tiles]
          /\ jobs' = [jobs EXCEPT ![id].task = "running"]
    /\ workers' = [workers EXCEPT ![w].pc = "wait"]
    /\ log' = <<>>
    /\ UNCHANGED <<calc, now, geocaches, tiles2, tiles_codes, settings, issued,
                   gs, rf, ds, last_discovery>>

\* mutant of PlanWait: when the 2 s run out the task is aborted
PlanWait_abort(w) ==
    /\ workers[w].pc = "wait"
    /\ LET id == workers[w].id
           ended == jobs[id].task \in {"finished", "panicked"}
       IN /\ workers' = [workers EXCEPT ![w].pc = "ret", ![w].result = Ok(id),
                                        ![w].elapsed = ~ended]
          /\ IF ended THEN UNCHANGED <<job, jobs, gs, rf, ds>>
             ELSE /\ job' = IdleJob /\ gs' = IdleGet /\ rf' = IdleRefresh
                  /\ ds' = IdleDiscover
                  /\ jobs' = [jobs EXCEPT ![id].task = "cancelled"]
    /\ UNCHANGED <<calc, now, geocaches, tiles2, tiles_codes, settings, issued,
                   last_discovery, log>>

\* area.rs lines 18-21, track.rs lines 31-34: timeout(2 s, handle).await and
\* the return of job_for_result.  The wait ends when the task has ended (it
\* returned or panicked) or when the 2 s have run out, which may be at any
\* step of the task; the JoinHandle is dropped then, which detaches the task.
PlanWait(w) ==
    /\ workers[w].pc = "wait"
    /\ LET id == workers[w].id
           ended == jobs[id].task \in {"finished", "panicked"}
       IN workers' = [workers EXCEPT ![w].pc = "ret", ![w].result = Ok(id),
                                     ![w].elapsed = ~ended]
    /\ UNCHANGED <<calc, now, geocaches, tiles2, tiles_codes, settings, issued,
                   gs, rf, ds, job, jobs, last_discovery, log>>

\* area.rs line 13, track.rs line 26: Cache::new_lite().await.unwrap(): the
\* pool connects and the settings table is created, or the task panics
JobNewLite ==
    /\ job.pc = "new_lite"
    /\ \E ok \in BOOLEAN :
          IF ok THEN /\ job' = [job EXCEPT !.pc = "loop"]
                     /\ UNCHANGED jobs
          ELSE /\ job' = IdleJob
               /\ jobs' = [jobs EXCEPT ![job.id].task = "panicked"]
    /\ UNCHANGED <<workers, calc, now, geocaches, tiles2, tiles_codes, settings,
                   issued, gs, rf, ds, last_discovery, log>>

----------------------------------------------------------------------------
(* job.rs: JobQueue, called by concurrent request handlers.  Every method  *)
(* holds the mutex of the map for its one statement, so the calls of the   *)
(* handlers take effect one at a time, in any order.                       *)

\* the ids a handler asks for: those of the jobs, and one no job has
QueueIds == 1..(MaxQueued + 1)

\* JobQueue::add, as compute_area and compute_track call it with a new job
QueueAdd(w) ==
    /\ ~Running(w)
    /\ Len(jobs) < MaxQueued
    /\ \E kind \in {"area", "track"} :
          jobs' = JobQueue_add(jobs, [NewJob(kind, <<>>) EXCEPT
                                        !.task = "unspawned"])
    /\ workers' = [workers EXCEPT ![w] = [IdleWorker EXCEPT
                       !.pc = "ret", !.op = "add", !.id = Len(jobs) + 1,
                       !.seen = DOMAIN jobs]]
    /\ UNCHANGED <<calc, now, geocaches, tiles2, tiles_codes, settings, issued,
                   gs, rf, ds, job, last_discovery, log>>

\* JobQueue::get, as query_task calls it (main.rs line 119)
QueueGet(w) ==
    /\ ~Running(w)
    /\ \E id \in QueueIds :
          workers' = [workers EXCEPT ![w] = [IdleWorker EXCEPT
                         !.pc = "ret", !.op = "get", !.id = id,
                         !.result = Ok(JobQueue_get(jobs, id)),
                         !.seen = DOMAIN jobs]]
    /\ UNCHANGED <<calc, now, geocaches, tiles2, tiles_codes, settings, issued,
                   gs, rf, ds, job, jobs, last_discovery, log>>

\* JobQueue::list
QueueList(w) ==
    /\ ~Running(w)
    /\ workers' = [workers EXCEPT ![w] = [IdleWorker EXCEPT
                       !.pc = "ret", !.op = "list",
                       !.result = Ok(JobQueue_list(jobs)),
                       !.seen = DOMAIN jobs]]
    /\ UNCHANGED <<calc, now, geocaches, tiles2, tiles_codes, settings, issued,
                   gs, rf, ds, job, jobs, last_discovery, log>>

----------------------------------------------------------------------------
(* track.rs: the post filter of a track job, on the lists cache.get returns *)

\* the detail records the upstream may hold for a code: full records with
\* every combination of status, type, difficulty, terrain and position
\* around the limits of the filter, and the premium-only record
DetailRecords(c) ==
    {RawDetail(c, "full", status, type, difficulty, terrain, coord) :
        status \in {"Active", "Disabled"}, type \in {2, 137},
        difficulty \in {30, 35}, terrain \in {30, 35},
        coord \in {"edge", "far"}}
    \cup {Raw(c, "premium")}

\* BATCH_SIZE records of which the first fifth is premium-only
FullBatch ==
    [c \in 1..BATCH_SIZE |->
       IF c <= BATCH_SIZE \div 5 THEN Raw(c, "premium") ELSE Raw(c, "full")]

\* the lists cache.get returns to a track job: the parsed records of up to
\* two codes, and those of a full batch
ReturnedLists ==
    {<<>>}
    \cup {<<parse(a)>> : a \in DetailRecords(1) \cup DetailRecords(2)}
    \cup {<<parse(a), parse(b)>> : a \in DetailRecords(1),
                                   b \in DetailRecords(2)}
    \cup {[i \in 1..BATCH_SIZE |-> parse(FullBatch[i])]}

\* a track job whose task is at job.rs line 92: the tile was discovered,
\* "Downloading ..." is set and cache.get(codes) has returned all_geocaches
TrackJobGot ==
    /\ AllIdle
    /\ Len(jobs) < MaxJobs
    /\ \E list \in ReturnedLists :
          LET codes == [i \in 1..Len(list) |-> list[i].code]
              m == DownloadingMessage(Len(codes))
          IN /\ jobs' = Append(jobs, [NewJob("track", <<TileB>>) EXCEPT
                                        !.state = set_message(@, m),
                                        !.msgs = <<DiscoverMessage(0, 1, TileB), m>>])
             /\ job' = [IdleJob EXCEPT !.pc = "get", !.id = Len(jobs) + 1,
                                       !.kind = "track", !.tiles = <<TileB>>,
                                       !.index = 1, !.codes = codes]
             /\ gs' = [IdleGet EXCEPT !.pc = "ret", !.caller = "job",
                                      !.codes = codes, !.at = now,
                                      !.cutoff = cutoff_of(now),
                                      !.result = Ok(list)]
    /\ log' = <<>>
    /\ UNCHANGED <<workers, calc, now, geocaches, tiles2, tiles_codes, settings,
                   issued, rf, ds, last_discovery>>

\* main.rs lines 119-120, query_task: jobs.get(job_id).unwrap() and
\* job.get_geocaches(), which holds the lock of the state for the one read;
\* Some(list) is rendered and returned
QueryGeocaches(w) ==
    /\ ~Running(w)
    /\ \E id \in DOMAIN jobs :
          LET got == get_geocaches(jobs[id].state)
              wk == [IdleWorker EXCEPT !.op = "query_task", !.id = id]
          IN workers' = [workers EXCEPT ![w] =
                IF got # None
                THEN [wk EXCEPT !.pc = "ret",
                                !.result = Ok([body |-> "geocaches",
                                               val |-> got[1]])]
                ELSE [wk EXCEPT !.pc = "message"]]
    /\ UNCHANGED <<calc, now, geocaches, tiles2, tiles_codes, settings, issued,
                   gs, rf, ds, job, jobs, last_discovery, log>>

\* main.rs line 123, query_task: after None, job.get_message(), which takes
\* the lock of the state again
QueryMessage(w) ==
    /\ workers[w].op = "query_task" /\ workers[w].pc = "message"
    /\ workers' = [workers EXCEPT
          ![w].pc = "ret",
          ![w].result = Ok([body |-> "message",
                            val |-> get_message(jobs[workers[w].id].state)])]
    /\ UNCHANGED <<calc, now, geocaches, tiles2, tiles_codes, settings, issued,
                   gs, rf, ds, job, jobs, last_discovery, log>>

----------------------------------------------------------------------------
(* Specifications *)

\* cache.get with short code lists, called once or twice in a row
NextGet ==
    \/ Tick
    \/ CallGet
    \/ TokenStep
    \/ FetchOk
    \/ FetchErr
    \/ RefreshLoad
    \/ RefreshCallOk
    \/ RefreshCallErr
    \/ StoreRefresh
    \/ StoreAccess
    \/ GetReturn
    \/ CallGetAgain

SpecGet == Init /\ [][NextGet]_vars

\* cache.get with long code lists, and Groundspeak::fetch on its own, while
\* the clock stands still
NextChunk ==
    \/ CallGetBig
    \/ GroundspeakFetch
    \/ TokenStep
    \/ FetchOk
    \/ FetchErr
    \/ RefreshLoad
    \/ RefreshCallOk
    \/ RefreshCallErr
    \/ StoreRefresh
    \/ StoreAccess
    \/ GetReturn

SpecChunk == Init /\ [][NextChunk]_vars

\* cache.get with a code alone and with the same code in the second chunk,
\* while the clock stands still
NextLate ==
    \/ CallGetLate
    \/ TokenStep
    \/ FetchOk
    \/ FetchErr
    \/ RefreshLoad
    \/ RefreshCallOk
    \/ RefreshCallErr
    \/ StoreRefresh
    \/ StoreAccess
    \/ GetReturn
    \/ CallGetRetry

SpecLate == Init /\ [][NextLate]_vars

\* cache.discover, called again and again
NextDiscover ==
    \/ Tick
    \/ CallDiscover
    \/ DiscoverLoad
    \/ DiscoverImage
    \/ DiscoverInfo
    \/ DiscoverStore
    \/ DiscoverReturn

SpecDiscover == Init /\ [][NextDiscover]_vars

\* jobs, one after the other, each run by its spawned task
NextJob ==
    \/ Tick
    \/ StartJob
    \/ JobDiscover
    \/ DiscoverLoad
    \/ DiscoverImage
    \/ DiscoverInfo
    \/ DiscoverStore
    \/ JobDiscovered
    \/ JobDownload
    \/ TokenStep
    \/ FetchOk
    \/ FetchErr
    \/ RefreshLoad
    \/ RefreshCallOk
    \/ RefreshCallErr
    \/ StoreRefresh
    \/ StoreAccess
    \/ JobPublish

SpecJob == Init /\ [][NextJob]_vars

\* jobs over overlapping tiles, one after the other, while the clock stands
\* still: the detail rows one job stored are hits of the next
NextOrder ==
    \/ StartNextJob
    \/ JobDiscover
    \/ DiscoverLoad
    \/ DiscoverImage
    \/ DiscoverInfo
    \/ DiscoverStore
    \/ JobDiscovered
    \/ JobDownload
    \/ TokenStep
    \/ FetchOk
    \/ FetchErr
    \/ RefreshLoad
    \/ RefreshCallOk
    \/ RefreshCallErr
    \/ StoreRefresh
    \/ StoreAccess
    \/ JobPublish

SpecOrder == Init /\ [][NextOrder]_vars

\* cache.discover, called by concurrent request handlers
NextDiscoverRace ==
    \/ Tick
    \/ \E w \in Workers : WDiscover(w)
    \/ \E w \in Workers : WLoad(w)
    \/ \E w \in Workers : WUpstream(w)
    \/ \E w \in Workers : WDelete(w)
    \/ \E w \in Workers : WHeader(w)
    \/ \E w \in Workers : WCommit(w)

SpecDiscoverRace == Init /\ [][NextDiscoverRace]_vars

\* AuthProvider::refresh, called by concurrent request handlers
NextRefreshRace ==
    \/ \E w \in Workers : WRefresh(w)
    \/ \E w \in Workers : WCall(w)
    \/ \E w \in Workers : WStoreRefresh(w)
    \/ \E w \in Workers : WStoreAccess(w)

SpecRefreshRace == Init /\ [][NextRefreshRace]_vars

\* Tile::quadkey on pairs of tiles of one zoom
NextQuadkey ==
    \/ QuadkeyPick
    \/ QuadkeyApply
    \/ QuadkeyDone

SpecQuadkey == Init /\ [][NextQuadkey]_vars

\* UtfGrid::parse on the replies of the tile server
NextGrid ==
    \/ GridPick
    \/ GridParse
    \/ GridDone

SpecGrid == Init /\ [][NextGrid]_vars

\* Tile::near on the areas of the requests
NextNear ==
    \/ NearPick
    \/ NearApply
    \/ NearDone

SpecNear == Init /\ [][NextNear]_vars

\* Tile::around on tiles with x, y < 2^z
NextAround ==
    \/ AroundPick
    \/ AroundApply
    \/ AroundDone

SpecAround == Init /\ [][NextAround]_vars

\* the steps of the spawned task.  The database holds no header row when
\* the one task of this specification starts, and the tiles of its job are
\* distinct, so discover never loads the codes of a fresh header here.
TaskStep ==
    \/ JobNewLite
    \/ JobDiscover
    \/ DiscoverImage
    \/ DiscoverInfo
    \/ DiscoverStore
    \/ JobDiscovered
    \/ JobDownload
    \/ TokenStep
    \/ FetchOk
    \/ FetchErr
    \/ RefreshLoad
    \/ RefreshCallOk
    \/ RefreshCallErr
    \/ StoreRefresh
    \/ StoreAccess
    \/ JobPublish

\* compute_area and compute_track: the handler and the task it spawned
NextPlan ==
    \/ \E w \in Workers : PlanAdd(w)
    \/ \E w \in Workers : PlanSpawn(w)
    \/ \E w \in Workers : PlanWait(w)
    \/ JobNewLite
    \/ JobDiscover
    \/ DiscoverImage
    \/ DiscoverInfo
    \/ DiscoverStore
    \/ JobDiscovered
    \/ JobDownload
    \/ TokenStep
    \/ FetchOk
    \/ FetchErr
    \/ RefreshLoad
    \/ RefreshCallOk
    \/ RefreshCallErr
    \/ StoreRefresh
    \/ StoreAccess
    \/ JobPublish

SpecPlan == Init /\ [][NextPlan]_vars

\* The runtime keeps running the handler and the spawned task, the timer of
\* the wait fires, and the database, the upstream and the OAuth provider
\* answer every request (with a result or an error).
SpecPlanFair ==
    /\ SpecPlan
    /\ WF_vars(\E w \in Workers : PlanSpawn(w))
    /\ WF_vars(\E w \in Workers : PlanWait(w))
    /\ WF_vars(TaskStep)

\* JobQueue::add, get and list, called by concurrent request handlers
NextQueue ==
    \/ \E w \in Workers : QueueAdd(w)
    \/ \E w \in Workers : QueueGet(w)
    \/ \E w \in Workers : QueueList(w)

SpecQueue == Init /\ [][NextQueue]_vars

\* the end of a track job: the list cache.get returned is filtered and
\* published
NextTrack ==
    \/ TrackJobGot
    \/ JobPublish

SpecTrack == Init /\ [][NextTrack]_vars

\* the end of a job's task and the handlers that poll the job
NextPoll ==
    \/ TrackJobGot
    \/ JobPublish
    \/ \E w \in Workers : QueryGeocaches(w)
    \/ \E w \in Workers : QueryMessage(w)

SpecPoll == Init /\ [][NextPoll]_vars

\* AuthProvider::token and AuthProvider::refresh, call after call
NextToken ==
    \/ \E w \in Workers : SeqToken(w)
    \/ \E w \in Workers : WTokenRefresh(w)
    \/ \E w \in Workers : SeqRefresh(w)
    \/ \E w \in Workers : WCall(w)
    \/ \E w \in Workers : WStoreRefresh(w)
    \/ \E w \in Workers : WStoreAccess(w)

SpecToken == Init /\ [][NextToken]_vars

----------------------------------------------------------------------------
(* Reading the log *)

\* the positions of the events of kind ev after position from
EventIdx(ev, from) == {i \in (from + 1)..Len(log) : log[i].ev = ev}

Count(ev, from) == Cardinality(EventIdx(ev, from))

\* the code lists of the detail requests after position from, concatenated
RECURSIVE SentCodes(_)
SentCodes(from) ==
    IF from >= Len(log) THEN <<>>
    ELSE (IF log[from + 1].ev = "detail" THEN log[from + 1].codes ELSE <<>>)
         \o SentCodes(from + 1)

\* the token pair the provider handed out last before position i (0: none)
RECURSIVE LastIssued(_)
LastIssued(i) ==
    IF i <= 1 THEN 0
    ELSE IF log[i - 1].ev = "issued" THEN log[i - 1].token
    ELSE LastIssued(i - 1)

\* the row of code c, as the running get found it, was fresh and parsable
RowFreshParsable(c) ==
    /\ gs.rows[c] # None
    /\ gs.rows[c][1].ts >= gs.at - 7
    /\ gs.rows[c][1].raw.kind \in {"full", "premium"}

----------------------------------------------------------------------------
(* C1 *)

\* C1 as stated: Cache.get sends upstream exactly the codes without a fresh
\* (ts >= now - 7 days), parsable detail row; a code with such a row is never
\* part of an upstream detail request.
C1_AsStated ==
    gs.pc # "idle" =>
        /\ \A i \in EventIdx("detail", gs.start) :
              \A c \in Range(log[i].codes) : ~RowFreshParsable(c)
        /\ (gs.pc = "ret" /\ gs.result.ok) =>
              Range(SentCodes(gs.start)) =
                  {c \in Range(gs.codes) : ~RowFreshParsable(c)}

\* C1, amended: Cache.get sends upstream exactly the codes whose lookup
\* yielded no geocache: those without a fresh (ts >= now - 7 days), parsable
\* row and those whose row read failed.  A code with a fresh, parsable row
\* that was read without error is never part of an upstream detail request,
\* and when get returns Ok every other code was; without a failed detail
\* call the requests carry these codes once each, in input order.
C1_Misses ==
    gs.pc # "idle" =>
        LET miss(c) == ~RowFreshParsable(c) \/ c \in gs.bad
        IN /\ \A i \in EventIdx("detail", gs.start) :
                 \A c \in Range(log[i].codes) : miss(c)
           /\ (gs.pc = "ret" /\ gs.result.ok) =>
                 /\ Range(SentCodes(gs.start)) = {c \in Range(gs.codes) : miss(c)}
                 /\ Count("refresh_by_retry", gs.start) = 0 =>
                       SentCodes(gs.start) = SelectSeq(gs.codes, miss)

\* C1 witness: GC1 and GC2 fresh, GC3 absent; get([GC1, GC2, GC3]) returned
\* three entries after exactly one detail call, for [GC3]
C1_Witness ==
    /\ gs.pc = "ret" /\ gs.result.ok /\ gs.bad = {}
    /\ gs.codes = <<1, 2, 3>>
    /\ RowFreshParsable(1) /\ RowFreshParsable(2) /\ gs.rows[3] = None
    /\ Len(gs.result.val) = 3
    /\ Count("detail", gs.start) = 1
    /\ SentCodes(gs.start) = <<3>>

----------------------------------------------------------------------------
(* C2 *)

\* the positions of the tile requests after position from
TileEvents(from) ==
    {i \in (from + 1)..Len(log) : log[i].ev \in {"map.png", "map.info"}}

\* the GcCodes that the rows of a tile stand for
RowCodes(rows) == {GcCode(r.gccode, r.lat_lon) : r \in rows}

----------------------------------------------------------------------------
(* C3 *)

\* C3: for every quadkey with a header row, the companion table holds
\* exactly the codes that the most recent stored discovery of that tile got
\* from the upstream, one row per code, and the header ts is the time of
\* that discovery; so re-discovering a stale tile removes the codes that are
\* no longer reported.
C3_CompanionIsLastDiscovery ==
    \A q \in QuadKeys :
        tiles2[q] # None =>
            /\ last_discovery[q] # None
            /\ RowCodes(tiles_codes[q]) = last_discovery[q][1].codes
            /\ Cardinality(tiles_codes[q]) = Cardinality(last_discovery[q][1].codes)
            /\ tiles2[q] = <<last_discovery[q][1].at>>

\* C3 witness: a stale tile was discovered again, a code it had is gone from
\* the companion table and the header has the time of the re-discovery
C3_Witness ==
    /\ ds.pc = "ret" /\ ds.result.ok
    /\ LET q == Key(ds.tile)
       IN /\ ds.old[1][q] # None
          /\ ds.old[1][q][1] < ds.at - 7
          /\ tiles2[q] = <<now>>
          /\ tiles_codes[q] # {}
          /\ \E r \in ds.old[2][q] :
                \A r2 \in tiles_codes[q] : r2.gccode # r.gccode

----------------------------------------------------------------------------
(* C4 *)

\* C4 as stated: no execution of fetch_chunk invokes the token refresh (on
\* its error path) more than once or the detail call more than twice.
C4_AsStated ==
    gs.pc # "idle" =>
        /\ Count("refresh_by_retry", gs.mark) <= 1
        /\ Count("detail", gs.mark) <= 2

\* C4, amended: within one execution of fetch_chunk every failed detail call
\* is followed by one token refresh; after the first failure the detail call
\* is retried once; if the retry fails too the refresh is invoked a second
\* time and the chunk then fails with an error.  No execution of fetch_chunk
\* issues the detail call more than twice or invokes the refresh more than
\* twice on its error path (token() adds at most one more, when no access
\* token is stored).
C4_RefreshAndRetry ==
    gs.pc # "idle" =>
        LET D == EventIdx("detail", gs.mark)
            R == EventIdx("refresh_by_retry", gs.mark)
        IN /\ Cardinality(D) <= 2
           /\ Cardinality(R) <= 2
           /\ Count("refresh_by_token", gs.mark) <= 1
           \* a refresh on the error path directly follows a detail call
           /\ \A i \in R : i - 1 \in D
           \* a detail call that is not the last one failed and was followed
           \* by the refresh
           /\ \A i \in D : (\E j \in D : j > i) => i + 1 \in R
           \* the second failure is fatal
           /\ (gs.pc = "ret" /\ Cardinality(R) = 2) => ~gs.result.ok
           /\ Cardinality(R) = 2 => gs.pc \in {"refresh", "ret"}

\* C4 witness: a chunk failed after two detail calls and two refreshes
C4_Witness ==
    /\ gs.pc = "ret" /\ ~gs.result.ok
    /\ Count("detail", gs.mark) = 2
    /\ Count("refresh_by_retry", gs.mark) = 2

----------------------------------------------------------------------------
(* C5 *)

\* C5: when fetch_chunk retries after a failed detail call, the access token
\* and the refresh token the provider just handed out are both in the
\* settings table before the retry's detail call is issued, the retry carries
\* the new access token, and a get that succeeds on the retry leaves the new
\* pair in the settings rows.
C5_StoredBeforeRetry ==
    gs.pc # "idle" =>
        /\ (gs.pc = "fetch" /\ gs.attempts >= 1) =>
              LET n == LastIssued(Len(log) + 1)
              IN /\ n > 0
                 /\ settings.access_token = Some(n)
                 /\ settings.refresh_token = Some(n)
                 /\ gs.token = Some(n)
        /\ \A i \in EventIdx("detail", gs.mark) :
              (\E j \in EventIdx("refresh_by_retry", gs.mark) : j < i) =>
                  /\ LastIssued(i) > 0
                  /\ log[i].token = LastIssued(i)
        /\ (gs.pc = "ret" /\ gs.result.ok
              /\ Count("refresh_by_retry", gs.mark) = 1) =>
              LET n == LastIssued(Len(log) + 1)
              IN settings = [access_token |-> Some(n), refresh_token |-> Some(n)]

\* C5 witness: first detail call failed, the provider handed out a new pair,
\* the second detail call succeeded and the settings rows hold the new pair
C5_Witness ==
    /\ gs.pc = "ret" /\ gs.result.ok /\ Len(gs.result.val) > 0
    /\ Count("detail", gs.mark) = 2
    /\ Count("refresh_by_retry", gs.mark) = 1
    /\ \E n \in 1..MaxIssue :
          /\ settings = [access_token |-> Some(n), refresh_token |-> Some(n)]
          /\ log[Len(log)].token = n

----------------------------------------------------------------------------
(* C6 *)

\* no row of the requested codes expired between the two calls
NoExpiry ==
    \A c \in Range(gs.codes) :
        (gs.rows[c] # None /\ gs.rows[c][1].ts >= gs.first[1].cutoff)
            => gs.rows[c][1].ts >= gs.at - 7

\* C6 as stated: for a non-empty code list, with no freshness expiry between
\* the calls, the second of two calls get(C) returns the same geocaches in
\* the same order as the first and issues no upstream detail request.
C6_AsStated ==
    (gs.first # None /\ gs.codes # <<>> /\ NoExpiry) =>
        /\ gs.pc = "ret" /\ gs.result.ok
        /\ gs.result.val = gs.first[1].result
        /\ Count("detail", gs.start) = 0

\* C6, amended: for a non-empty code list C, if the first get(C) returned a
\* geocache for every code of C, no row expires between the calls and no row
\* read fails in the second call, then the second call issues no upstream
\* detail request and returns the same geocaches as the first, in input
\* order; the first call returns them with the cache hits before the fetched
\* ones, so the two results are equal up to order.
C6_SecondCallCached ==
    (/\ gs.first # None /\ gs.codes # <<>> /\ NoExpiry /\ gs.bad = {}
     /\ Len(gs.first[1].result) = Len(gs.codes)) =>
        /\ gs.pc = "ret" /\ gs.result.ok
        /\ Count("detail", gs.start) = 0
        /\ Len(gs.result.val) = Len(gs.codes)
        /\ \A i \in 1..Len(gs.codes) : gs.result.val[i].code = gs.codes[i]
        /\ Range(gs.result.val) = Range(gs.first[1].result)

\* C6 witness: a second call answered from the cache whose result has the
\* order of the input while the first call's result had the hits first
C6_Witness ==
    /\ gs.first # None /\ NoExpiry /\ gs.bad = {}
    /\ Len(gs.first[1].result) = Len(gs.codes)
    /\ gs.pc = "ret" /\ gs.result.ok
    /\ gs.result.val # gs.first[1].result
    /\ Len(gs.codes) = 3

----------------------------------------------------------------------------
(* C7 *)

IsDetail(e) == e.ev = "detail"

\* the detail requests of the running get, in the order they were sent
DetailSeq == SelectSeq(SubSeq(log, gs.start + 1, Len(log)), IsDetail)

\* C7: Cache.get splits the misses, in input order, into consecutive chunks
\* of 50 (the last one possibly smaller): every detail request carries one
\* of these chunks, so none carries more than 50 codes, and a get that
\* returns without a failed detail call has sent exactly ceil(m / 50)
\* requests, the chunks in order.  Groundspeak::fetch, called with more than
\* 50 codes, returns an error and sends nothing.
C7_Chunks ==
    /\ \A i \in 1..Len(log) :
          log[i].ev = "detail" => Len(log[i].codes) \in 1..50
    /\ (gs.pc = "direct" /\ Len(gs.codes) > 50) =>
          ~gs.result.ok /\ log = <<>>
    /\ gs.pc \in {"token", "fetch", "refresh", "ret"} =>
          LET missed(c) == ~RowFreshParsable(c) \/ c \in gs.bad
              miss == SelectSeq(gs.codes, missed)
              m == Len(miss)
              n == (m + 49) \div 50
              chunk(k) == SubSeq(miss, 50 * (k - 1) + 1, Min(50 * k, m))
              D == DetailSeq
          IN /\ \A i \in 1..Len(D) : \E k \in 1..n : D[i].codes = chunk(k)
             /\ (gs.pc = "ret" /\ gs.result.ok
                   /\ Count("refresh_by_retry", gs.start) = 0) =>
                   /\ Len(D) = n
                   /\ \A k \in 1..n : D[k].codes = chunk(k)

\* C7 witness: get of 101 codes, 50 of them cached: the 51 misses went out
\* in two detail calls of 50 and 1 codes
C7_Witness ==
    /\ gs.pc = "ret" /\ gs.result.ok
    /\ Len(gs.codes) = 101 /\ Len(gs.cache_hit) = 50
    /\ Len(DetailSeq) = 2
    /\ Len(DetailSeq[1].codes) = 50
    /\ Len(DetailSeq[2].codes) = 1
    /\ Len(gs.result.val) = 101

----------------------------------------------------------------------------
(* C8 *)

\* the number of discovered codes of job J that pass its pre-filter
PassedPreFilter(J) ==
    Cardinality({k \in 1..Len(J.seen) :
                   J.kind = "area" \/ J.seen[k].approx_coord # <<"far">>})

\* the phase of a message of a job over n tiles
Rank(m, n) ==
    CASE m.text = "Discover tile {}/{}: {}" -> m.i
      [] m.text = "Downloading {} geocaches" -> n + 1
      [] m.text = "Finished" -> n + 2
      [] OTHER -> 0

\* the messages set so far are the beginning of the sequence
\* Discover 1/N, ..., Discover N/N, Downloading K, Finished
MessagesInOrder ==
    \A j \in DOMAIN jobs :
        LET J == jobs[j]
            N == Len(J.tiles)
            m == J.msgs
        IN /\ Len(m) <= N + 2
           /\ \A i \in 1..Len(m) :
                 /\ i <= N =>
                       m[i] = [text |-> "Discover tile {}/{}: {}", i |-> i,
                               n |-> N, tile |-> J.tiles[i]]
                 /\ i = N + 1 =>
                       m[i] = [text |-> "Downloading {} geocaches",
                               i |-> PassedPreFilter(J), n |-> 0,
                               tile |-> NoTile]
                 /\ i = N + 2 =>
                       m[i] = [text |-> "Finished", i |-> 0, n |-> 0,
                               tile |-> NoTile]
           /\ J.state.message = IF m = <<>> THEN EmptyMessage ELSE m[Len(m)]
           /\ J.task = "finished" => Len(m) = N + 2

\* a step that changes the message of a job moves it to a later phase, and
\* no step changes it after "Finished"
MessageAdvances ==
    \A j \in DOMAIN jobs :
        LET old == jobs[j].state.message
            new == jobs'[j].state.message
            N == Len(jobs[j].tiles)
        IN /\ new # old => Rank(new, N) > Rank(old, N)
           /\ old.text = "Finished" => new = old

\* C8: during one run of Job.process_filtered over N tiles the message takes
\* the values "Discover tile i/N: <tile>" for i = 1, ..., N in increasing i,
\* then "Downloading K geocaches" with K the number of codes that passed the
\* pre-filter, then "Finished"; it never returns to an earlier phase and
\* never changes after "Finished".
C8_MessageSequence == []MessagesInOrder /\ [][MessageAdvances]_vars

\* C8 witness: a job over two tiles finished after "Downloading K", K >= 1
C8_Witness ==
    \E j \in DOMAIN jobs :
        /\ jobs[j].task = "finished"
        /\ Len(jobs[j].tiles) = 2
        /\ Len(jobs[j].msgs) = 4
        /\ jobs[j].msgs[3].i >= 1
        /\ jobs[j].state.message.text = "Finished"

----------------------------------------------------------------------------
(* C9 *)

\* C9: get_geocaches() is Some(list) exactly when the published list is not
\* empty and None otherwise; a job that finished with no surviving geocache
\* has get_geocaches() = None and get_message() = "Finished"; a job that has
\* not finished never has the message "Finished".
C9_FinishedDistinguishes ==
    \A j \in DOMAIN jobs :
        LET J == jobs[j]
        IN /\ J.state.geocaches # <<>> =>
                 get_geocaches(J.state) = <<J.state.geocaches>>
           /\ J.state.geocaches = <<>> => get_geocaches(J.state) = <<>>
           /\ (J.task = "finished" /\ J.state.geocaches = <<>>) =>
                 /\ get_geocaches(J.state) = <<>>
                 /\ get_message(J.state).text = "Finished"
           /\ J.task = "finished" <=> get_message(J.state).text = "Finished"

\* C9 witness: a job downloaded at least one code and finished with an
\* empty list
C9_Witness ==
    \E j \in DOMAIN jobs :
        /\ jobs[j].task = "finished"
        /\ jobs[j].state.geocaches = <<>>
        /\ get_geocaches(jobs[j].state) = <<>>
        /\ get_message(jobs[j].state).text = "Finished"
        /\ jobs[j].msgs[Len(jobs[j].msgs) - 1].i >= 1

----------------------------------------------------------------------------
(* C10 *)

\* a job whose task panicked shows the last progress message, has no
\* result and is still in the queue
FailedJobKeepsProgress ==
    \A j \in DOMAIN jobs :
        jobs[j].task = "panicked" =>
            LET J == jobs[j]
            IN /\ J.msgs # <<>>
               /\ get_message(J.state) = J.msgs[Len(J.msgs)]
               /\ get_message(J.state).text
                     \in {"Discover tile {}/{}: {}", "Downloading {} geocaches"}
               /\ get_geocaches(J.state) = <<>>
               /\ JobQueue_get(jobs, j) = <<J>>

\* no step changes a job whose task panicked or takes it out of the queue
FailedJobStays ==
    \A j \in DOMAIN jobs :
        jobs[j].task = "panicked" =>
            j \in DOMAIN jobs' /\ jobs'[j] = jobs[j]

\* C10: if cache.discover or cache.get fails during Job.process_filtered,
\* the message stays at the last progress value set before the failure and
\* never becomes "Finished", get_geocaches() is None in every later state,
\* and the job stays retrievable from the JobQueue.
C10_FailureKeepsProgress ==
    []FailedJobKeepsProgress /\ [][FailedJobStays]_vars

\* C10 witness: cache.get failed in a job that was downloading K >= 1 codes
C10_Witness ==
    \E j \in DOMAIN jobs :
        /\ jobs[j].task = "panicked"
        /\ jobs[j].state.message.text = "Downloading {} geocaches"
        /\ jobs[j].state.message.i >= 1
        /\ get_geocaches(jobs[j].state) = <<>>


----------------------------------------------------------------------------
(* C11 *)

\* C11 as stated: a premium-only detail record the upstream returned is handed
\* to the caller of Cache.get as a stub but is never upserted into the
\* geocaches table, so every Cache.get that returns the stub of a premium-only
\* code has sent an upstream detail request for that code.
C11_AsStated ==
    /\ \A c \in Special :
          geocaches[c] # None => geocaches[c][1].raw.kind # "premium"
    /\ (gs.pc = "ret" /\ gs.caller = "top" /\ gs.result.ok) =>
          \A i \in 1..Len(gs.result.val) :
             gs.result.val[i].is_premium =>
                gs.result.val[i].code \in Range(SentCodes(gs.start))

----------------------------------------------------------------------------
(* C12 *)

\* a record that save_geocache stores and parse accepts
WellFormed(raw) == SaveInserts(raw) /\ ParseOk(raw)

\* the array the last answered detail call of the running get received
LastReply == gs.replies[Len(gs.replies)]

\* the running get has returned after its only detail chunk was answered
\* with fewer records than codes were requested
ShortReply ==
    /\ gs.pc = "ret" /\ gs.caller = "top"
    /\ Len(gs.replies) = 1
    /\ Len(LastReply) < Len(gs.cache_miss)

\* the hits and the returned records are handed back; the codes the reply
\* left out have no entry in the result and their rows are as the lookup
\* found them
PartialList ==
    /\ gs.result.ok
    /\ gs.result.val = gs.cache_hit \o [i \in 1..Len(LastReply) |-> parse(LastReply[i])]
    /\ \A c \in Range(gs.cache_miss) \ {LastReply[i].code : i \in 1..Len(LastReply)} :
          /\ geocaches[c] = gs.rows[c]
          /\ \A i \in 1..Len(gs.result.val) : gs.result.val[i].code # c

----------------------------------------------------------------------------
(* C13 *)

\* the last detail reply of the running get holds a malformed record and at
\* least one other record
MalformedInBatch ==
    /\ gs.pc = "ret" /\ gs.replies # <<>>
    /\ \E i \in 1..Len(LastReply) : ~WellFormed(LastReply[i])

GetFailsOnMalformed == MalformedInBatch => ~gs.result.ok

\* the job's task takes the failed result of get: it ends without publishing
JobFailsOnMalformed ==
    (MalformedInBatch /\ gs.caller = "job" /\ gs'.pc = "idle") =>
        /\ jobs'[job.id].task = "panicked"
        /\ jobs'[job.id].state = jobs[job.id].state
        /\ get_geocaches(jobs'[job.id].state) = None

\* C13: a detail reply that contains one malformed record (a required field
\* is missing) makes fetch_chunk and Cache.get fail with an error for the whole
\* batch, and the job with them: no partial list is returned or published.
C13_MalformedAborts == []GetFailsOnMalformed /\ [][JobFailsOnMalformed]_vars

\* a job whose get received a well-formed record and a malformed one
C13_Witness ==
    /\ MalformedInBatch /\ gs.caller = "job"
    /\ \E i \in 1..Len(LastReply) : WellFormed(LastReply[i])
    /\ ~gs.result.ok

----------------------------------------------------------------------------
(* C14 *)

\* C14: a database read error while Cache.get looks up one code makes that
\* code a miss and nothing else: the code is part of the upstream detail
\* request, every other code with a fresh, parsable row is still a hit and is
\* returned, and get fails only if a detail call, a token refresh or a
\* returned record fails.
C14_ReadErrorIsMiss ==
    (gs.pc # "idle" /\ gs.caller = "top" /\ gs.bad # {}) =>
        /\ gs.bad \subseteq Range(gs.cache_miss)
        /\ \A c \in Range(gs.codes) \ gs.bad :
              RowFreshParsable(c) =>
                 parse(gs.rows[c][1].raw) \in Range(gs.cache_hit)
        /\ \A i \in EventIdx("detail", gs.start) :
              gs.bad \subseteq Range(log[i].codes)
        /\ gs.pc = "ret" =>
              IF gs.result.ok
              THEN /\ SubSeq(gs.result.val, 1, Len(gs.cache_hit)) = gs.cache_hit
                   /\ Count("detail", gs.start) >= 1
              ELSE \/ Count("refresh_by_retry", gs.start) >= 1
                   \/ Count("refresh_by_token", gs.start) >= 1
                   \/ MalformedInBatch

\* a get returned Ok although the read of a fresh row failed: the code of
\* that row was fetched, another code was a hit
C14_Witness ==
    /\ gs.pc = "ret" /\ gs.caller = "top" /\ gs.result.ok
    /\ \E c \in gs.bad : RowFreshParsable(c)
    /\ gs.cache_hit # <<>>
    /\ Count("detail", gs.start) = 1

----------------------------------------------------------------------------
(* C15 *)

\* two handlers ran Cache::discover for the key q at the same time, both
\* asked the upstream and both have committed and returned
BothStored(q) ==
    \A w \in Workers :
       /\ workers[w].pc = "ret" /\ workers[w].op = "discover"
       /\ workers[w].q = q
       /\ workers[w].raced /\ workers[w].asked /\ workers[w].wrote

\* C15 as stated: when two workers concurrently call Cache.discover for the
\* same stale or absent tile, both may ask the upstream, and after both have
\* completed the last writer has won: the companion table holds exactly the
\* code set one of the two wrote, never a mixture of both, together with a
\* single header row for the quadkey.
C15_AsStated ==
    \A q \in QuadKeys :
       BothStored(q) =>
          /\ \E w \in Workers : tiles_codes[q] = UpsertAll({}, workers[w].codes)
          /\ \E w \in Workers : tiles2[q] = Some(workers[w].ts)

----------------------------------------------------------------------------
(* C16 *)

\* two handlers ran refresh() at the same time, both got a token pair from
\* the provider, both have stored it and returned
BothRefreshed ==
    \A w \in Workers :
       /\ workers[w].pc = "ret" /\ workers[w].op = "refresh"
       /\ workers[w].raced /\ workers[w].wrote /\ workers[w].result.ok

\* C16 as stated: when two workers run AuthProvider.refresh() concurrently,
\* both writes succeed and the last writer wins: after both have completed,
\* the settings table holds an access_token and a refresh_token that were
\* issued together in one provider response, for every interleaving of the
\* store steps of the two workers.
C16_AsStated ==
    BothRefreshed =>
       \E w \in Workers :
          /\ settings.access_token = Some(workers[w].new[1].access_token)
          /\ settings.refresh_token = Some(workers[w].new[1].refresh_token)

----------------------------------------------------------------------------
(* C17 *)

\* C17 as stated: all tiles whose quadkeys are keys of the tile tables are at
\* one zoom level, so two distinct tiles passed to Cache.discover never share
\* a quadkey: a discover that finds a header row for its key reads the codes
\* that were stored for its own tile, and a discover that stores replaces
\* only what was stored for its own tile.
C17_AsStated ==
    LET q == Key(ds.tile)
    IN (ds.pc \in {"load", "store"} /\ last_discovery[q] # None) =>
          last_discovery[q][1].tile = ds.tile

----------------------------------------------------------------------------
(* C18 *)

\* the interleaving of the low z bits of x and y: bit i of x at position 2i,
\* bit i of y at position 2i + 1, kept to the 32 bits of a u32
Interleaved(tile) ==
    ({2 * i : i \in Bits(tile.x) \cap (0..(tile.z - 1))}
       \cup {2 * i + 1 : i \in Bits(tile.y) \cap (0..(tile.z - 1))})
    \cap (0..31)

\* both quadkeys are the interleavings; up to zoom top, equal quadkeys or
\* equal signed keys are those of the same tile
QuadkeyIdentifies(top) ==
    (calc.op = "quadkey" /\ calc.out # <<>>) =>
        /\ \A i \in 1..2 : calc.out[i].quadkey = Interleaved(calc.args[i])
        /\ calc.args[1].z <= top =>
              /\ calc.out[1].quadkey = calc.out[2].quadkey
                    => calc.args[1] = calc.args[2]
              /\ calc.out[1].key = calc.out[2].key
                    => calc.args[1] = calc.args[2]

\* C18 as stated: Tile.quadkey() is the bit-interleaving of the low z bits of
\* x and y in 32-bit unsigned arithmetic, so for any fixed zoom z in 0..18 two
\* tiles with x, y < 2^z have equal quadkeys only if they are the same tile,
\* and the signed 32-bit database key identifies the tile.
C18_AsStated == QuadkeyIdentifies(18)

\* C18, amended: Tile.quadkey() is the bit-interleaving of the low z bits of
\* x and y in 32-bit unsigned arithmetic (bits that would land above position
\* 31 are dropped), so for any fixed zoom z in 0..16 two tiles with
\* x, y < 2^z have equal quadkeys only if they are the same tile, and the
\* signed 32-bit database key identifies the tile.
C18_QuadkeyIdentifies == QuadkeyIdentifies(16)

\* two distinct tiles of zoom 16 whose keys differ, one with bit 31 set
\* (a negative database key)
C18_Witness ==
    /\ calc.op = "quadkey" /\ calc.out # <<>>
    /\ calc.args[1].z = 16 /\ calc.args[1] # calc.args[2]
    /\ 31 \in calc.out[1].quadkey /\ calc.out[1].key < 0
    /\ calc.out[1].key # calc.out[2].key

----------------------------------------------------------------------------
(* C19 *)

CodesOf(list) == [i \in 1..Len(list) |-> list[i].code]

\* r is c with some entries left out: the entries of r, in their order, are
\* found in c at ascending positions
RECURSIVE IsSubseq(_, _)
IsSubseq(r, c) ==
    IF r = <<>> THEN TRUE
    ELSE IF c = <<>> THEN FALSE
    ELSE IF Head(r) = Head(c) THEN IsSubseq(Tail(r), Tail(c))
    ELSE IsSubseq(r, Tail(c))

\* the codes of a job in tile iteration order, then in the code order of
\* each tile's discovery
CodesInTileOrder(j) == PushFiltered(<<>>, jobs[j].kind, jobs[j].seen)

\* C19 as stated: within a job the published geocache list follows tile
\* iteration order and then code order within each tile, and Cache.get returns
\* geocaches in the order of its input codes, also when the input mixes cache
\* hits and misses.
C19_AsStated ==
    /\ \A j \in DOMAIN jobs :
          jobs[j].task = "finished" =>
             IsSubseq(CodesOf(jobs[j].state.geocaches), CodesInTileOrder(j))
    /\ (gs.pc = "ret" /\ gs.result.ok) =>
          IsSubseq(CodesOf(gs.result.val), gs.codes)

\* get returns the hits, in input order, and after them the fetched
\* geocaches, in the input order of the misses
HitsThenFetched ==
    (gs.pc = "ret" /\ gs.result.ok) =>
        LET n == Len(gs.cache_hit)
            rest == SubSeq(gs.result.val, n + 1, Len(gs.result.val))
        IN /\ SubSeq(gs.result.val, 1, n) = gs.cache_hit
           /\ IsSubseq(CodesOf(gs.cache_hit), gs.codes)
           /\ IsSubseq(gs.cache_miss, gs.codes)
           /\ IsSubseq(CodesOf(rest), gs.cache_miss)
           /\ (gs.cache_hit = <<>> \/ gs.cache_miss = <<>>) =>
                 IsSubseq(CodesOf(gs.result.val), gs.codes)

\* the job asked get for its codes in tile order and publishes the filtered
\* result in the order get returned it
PublishedAsReturned ==
    (gs.pc = "ret" /\ gs.caller = "job" /\ gs.result.ok /\ gs'.pc = "idle") =>
        /\ gs.codes = CodesInTileOrder(job.id)
        /\ jobs'[job.id].state.geocaches = Selected(job.kind, gs.result.val)
        /\ IsSubseq(CodesOf(jobs'[job.id].state.geocaches), CodesOf(gs.result.val))

\* C19, amended: within a job the codes are passed to Cache.get in tile
\* iteration order and then code order within each tile, and the published
\* list is the filtered result of Cache.get in the order get returned it;
\* Cache.get returns the cache hits in the order of its input codes, followed
\* by the fetched geocaches in the order of the missed input codes (the fetch
\* orchestrator preserves chunk input order), which is the order of the input
\* codes when the input has only hits or only misses.
C19_HitsThenFetched == []HitsThenFetched /\ [][PublishedAsReturned]_vars

\* the get of a job returned a hit before a fetched geocache although the
\* job's codes name the fetched one first
C19_Witness ==
    /\ gs.pc = "ret" /\ gs.caller = "job" /\ gs.result.ok
    /\ gs.cache_hit # <<>> /\ gs.cache_miss # <<>>
    /\ Len(gs.result.val) = Len(gs.codes)
    /\ ~IsSubseq(CodesOf(gs.result.val), gs.codes)

----------------------------------------------------------------------------
(* C20 *)

\* the position of a tile in the tile list of the running job
TileIndex(tile) == CHOOSE i \in 1..Len(job.tiles) : job.tiles[i] = tile

IsTileEvent(e) == e.ev \in {"map.png", "map.info"}

\* the number of the chunk of the running get that a detail request names
ChunkNo(codes) ==
    CHOOSE n \in 0..(NumChunks(gs.cache_miss, BATCH_SIZE) - 1) :
       ChunkAt(gs.cache_miss, n, BATCH_SIZE) = codes

\* the job's task is in one call at a time: in the discover of the tile the
\* loop is at, or, after the last tile, in get, which is in one fetch_chunk
\* that is either at the detail call or in one refresh()
OneCallAtATime ==
    job.pc # "idle" =>
        /\ ds.pc # "idle" =>
              /\ job.pc = "discover" /\ gs.pc = "idle" /\ rf.pc = "idle"
              /\ ds.tile = job.tiles[job.index + 1]
        /\ gs.pc # "idle" =>
              /\ job.pc = "get" /\ ds.pc = "idle"
              /\ job.index = Len(job.tiles)
              /\ Len(gs.replies) <= gs.k + 1
              /\ gs.pc \in {"token", "fetch", "refresh"} => Len(gs.replies) = gs.k
        /\ rf.pc # "idle" => gs.pc = "refresh"

\* the requests of the job went out in this order: the two requests of
\* tile 1, those of tile 2, ..., then the detail requests, chunk by chunk
RequestsInOrder ==
    job.pc # "idle" =>
        \A i, j \in 1..Len(log) :
           i < j =>
              /\ (IsTileEvent(log[i]) /\ IsTileEvent(log[j])) =>
                    TileIndex(log[i].codes[1]) <= TileIndex(log[j].codes[1])
              /\ log[i].ev = "detail" => ~IsTileEvent(log[j])
              /\ (log[i].ev = "detail" /\ log[j].ev = "detail") =>
                    ChunkNo(log[i].codes) <= ChunkNo(log[j].codes)

----------------------------------------------------------------------------
(* C21 *)

JobIds == 1..MaxJobs

\* the step at which the task of job id panicked: before any message was set
\* it was Cache::new_lite, after "Downloading ..." it was get, else discover
FailedStep(id) ==
    IF jobs[id].task # "panicked" THEN "none"
    ELSE IF jobs[id].msgs = <<>> THEN "new_lite"
    ELSE IF jobs[id].msgs[Len(jobs[id].msgs)].text = "Downloading {} geocaches"
         THEN "get"
    ELSE "discover"

\* the task of a job runs only while the job is in the JobQueue, and the
\* step that spawns it finds the job there
RegisteredBeforeSpawn ==
    /\ job.pc # "idle" => job.id \in DOMAIN jobs
    /\ (job.pc = "idle" /\ job'.pc # "idle") => job'.id \in DOMAIN jobs

\* the handler returns the handle of the job it added, and the step that
\* returns leaves the task and the job as they are
ReturnsHandle ==
    \A w \in Workers :
       (workers[w].op = "compute" /\ workers[w].pc = "wait"
           /\ workers'[w].pc = "ret") =>
          /\ workers'[w].result = Ok(workers[w].id)
          /\ workers'[w].elapsed = (jobs[workers[w].id].task = "running")
          /\ UNCHANGED <<job, jobs, gs, rf, ds>>

\* a handler that has added its job returns
HandlerReturns ==
    \A w \in Workers :
       (workers[w].op = "compute") ~> (workers[w].pc = "ret")

----------------------------------------------------------------------------
(* C22 *)

\* a job of the map stays in it, under its id
NoEviction ==
    \A id \in DOMAIN jobs : id \in DOMAIN jobs' /\ jobs'[id] = jobs[id]

\* get found every job that was in the map, and nothing else; list held
\* every job that was in the map; add put its job into the map
CallsSeeAllJobs ==
    \A w \in Workers :
       workers[w].pc = "ret" =>
          /\ workers[w].seen \subseteq DOMAIN jobs
          /\ workers[w].op = "add" => workers[w].id \in DOMAIN jobs
          /\ workers[w].op = "get" =>
                workers[w].result =
                   Ok(IF workers[w].id \in workers[w].seen
                      THEN Some(jobs[workers[w].id]) ELSE None)
          /\ workers[w].op = "list" =>
                \A id \in workers[w].seen :
                   [id |-> id, job |-> jobs[id]] \in workers[w].result.val

\* C22: JobQueue has no eviction: after JobQueue.add(job),
\* JobQueue.get(job.id) returns that job and JobQueue.list() contains it in
\* every later state, for any interleaving of concurrent add/get/list calls
\* issued by different requests.
C22_NoEviction == [][NoEviction]_vars /\ []CallsSeeAllJobs

\* with three jobs in the map, one handler's get returned the first job and
\* the other handler's list holds all three
C22_Witness ==
    /\ Len(jobs) = 3
    /\ \E w, v \in Workers :
          /\ workers[w].pc = "ret" /\ workers[w].op = "get"
          /\ workers[w].id = 1 /\ workers[w].seen = {1, 2, 3}
          /\ workers[w].result = Ok(Some(jobs[1]))
          /\ workers[v].pc = "ret" /\ workers[v].op = "list"
          /\ Cardinality(workers[v].result.val) = 3

----------------------------------------------------------------------------
(* C23 *)

\* the geocaches a job has published
Published(j) == Range(jobs[j].state.geocaches)

\* C23: every geocache published by a track job satisfies: not is_premium,
\* available, not archived, cache_type = Traditional, difficulty <= 3.0,
\* terrain <= 3.0 and track.near(coord) <= 100; premium stubs returned by
\* Cache.get are never published by a track job (of 50 returned records of
\* which 10 are premium, only non-premium ones can be published).
C23_TrackFilter ==
    \A j \in DOMAIN jobs :
       jobs[j].kind = "track" =>
          \A gc \in Published(j) :
             /\ ~gc.is_premium /\ gc.available /\ ~gc.archived
             /\ gc.cache_type = "Traditional"
             /\ gc.difficulty <= 30 /\ gc.terrain <= 30
             /\ near(gc.coord) <= 100
             /\ gc # premium(gc.code)

\* a track job got 50 records of which 10 are premium stubs and published
\* the 40 others
C23_Witness ==
    \E j \in DOMAIN jobs :
       /\ jobs[j].kind = "track" /\ jobs[j].task = "finished"
       /\ jobs[j].msgs[2] = DownloadingMessage(BATCH_SIZE)
       /\ Len(jobs[j].state.geocaches) = 40
       /\ \A c \in 1..10 : premium(c) \notin Published(j)

----------------------------------------------------------------------------
(* C24 *)

\* a discovered GcCode has no approximate coordinate or one within 100 m of
\* the track
Passes(gc) == gc.approx_coord = None \/ near(gc.approx_coord[1]) <= 100

\* the codes the running job has looked up in the detail table or named in
\* an upstream detail request
Touched ==
    (IF gs.pc = "idle" THEN {} ELSE Range(gs.codes) \cup DOMAIN gs.rows)
        \cup UNION {Range(log[i].codes) : i \in EventIdx("detail", 0)}

\* the running track job passes to get exactly the discovered GcCodes that
\* pass the filter, in the order of their discovery
PassedIffNear ==
    (job.pc = "get" /\ job.kind = "track") =>
        LET seen == jobs[job.id].seen
            kept == SelectSeq(seen, Passes)
        IN /\ job.codes = [i \in 1..Len(kept) |-> kept[i].code]
           /\ gs.pc # "idle" => gs.codes = job.codes

----------------------------------------------------------------------------
(* C25 *)

\* the step of discover that follows an upstream reply without codes (a 204
\* reply) returns the empty list with ts = now and leaves the header of the
\* tile with ts = now and no code rows
EmptyReplyStored ==
    (ds.pc = "store" /\ ds.codes = <<>> /\ ds'.pc = "ret") =>
        /\ ds'.result = Ok([ts |-> now, data |-> <<>>])
        /\ tiles2'[Key(ds.tile)] = Some(now)
        /\ tiles_codes'[Key(ds.tile)] = {}

\* the same step when the transaction of store_gccodes may fail: then
\* discover returns the error and both tables are as before
EmptyReplyStoredOrFailed ==
    (ds.pc = "store" /\ ds.codes = <<>> /\ ds'.pc = "ret") =>
        IF ds'.result.ok
        THEN /\ ds'.result = Ok([ts |-> now, data |-> <<>>])
             /\ tiles2'[Key(ds.tile)] = Some(now)
             /\ tiles_codes'[Key(ds.tile)] = {}
        ELSE UNCHANGED <<tiles2, tiles_codes>>

\* the running discover found the header that the last stored discovery of
\* its tile wrote, that discovery had no codes, and at most 7 days have
\* passed since
LaterThanEmpty ==
    LET q == Key(ds.tile)
    IN /\ ds.pc # "idle"
       /\ last_discovery[q] # None
       /\ last_discovery[q][1].tile = ds.tile
       /\ last_discovery[q][1].codes = {}
       /\ ds.old[1][q] = Some(last_discovery[q][1].at)
       /\ ds.at <= last_discovery[q][1].at + 7

\* such a discover sends nothing, writes nothing and returns the empty list
\* with the stored ts
EmptyAgain ==
    LaterThanEmpty =>
        /\ TileEvents(ds.start) = {}
        /\ <<tiles2, tiles_codes>> = ds.old
        /\ ds.pc \in {"load", "ret"}
        /\ ds.pc = "ret" =>
              ds.result = Ok([ts |-> last_discovery[Key(ds.tile)][1].at,
                              data |-> <<>>])

----------------------------------------------------------------------------
(* C26 *)

\* the calls of token() that found the access_token row in the table
RowExisted(w) ==
    workers[w].op = "token" /\ workers[w].before[1].access_token # None

\* the call returned the stored access token, and neither was the OAuth
\* provider contacted nor a settings row written
ReturnedStored(w) ==
    /\ workers[w].pc = "ret"
    /\ workers[w].result = Ok(workers[w].before[1].access_token[1])
    /\ ~workers[w].invoked /\ ~workers[w].asked
    /\ settings = workers[w].before[1]

\* refresh() is invoked by token() only after the lookup has failed
RefreshOnlyOnMiss(w) ==
    /\ workers[w].invoked => workers[w].miss
    /\ workers[w].pc = "refresh" => workers[w].miss

\* the step is one of the call that worker w runs
Acted(w) == workers'[w] # workers[w]

\* C26 as stated: AuthProvider.token() returns the stored access_token
\* without contacting the OAuth provider and without writing to the settings
\* table whenever the access_token row exists, and invokes refresh() only
\* when the lookup fails.
C26_AsStated ==
    [][\A w \in Workers :
          (Acted(w) /\ workers'[w].op = "token") =>
             /\ RowExisted(w)' => ReturnedStored(w)'
             /\ RefreshOnlyOnMiss(w)']_vars

\* C26, amended: AuthProvider.token() returns the stored access_token without
\* contacting the OAuth provider and without writing to the settings table
\* whenever the lookup of the access_token row succeeds, and invokes
\* refresh() when the lookup fails, which it does when the row is absent
\* and when the read of an existing row fails, and only then.
C26_StoredToken ==
    [][\A w \in Workers :
          (Acted(w) /\ workers'[w].op = "token") =>
             /\ ~workers'[w].miss => (RowExisted(w)' /\ ReturnedStored(w)')
             /\ workers'[w].miss =>
                   (workers'[w].pc = "refresh" \/ workers'[w].invoked)
             /\ ~RowExisted(w)' => workers'[w].miss
             /\ RefreshOnlyOnMiss(w)']_vars

\* token() returned the access token that an earlier refresh() had stored,
\* and nothing else happened
C26_Witness ==
    \E w \in Workers :
       /\ RowExisted(w) /\ ReturnedStored(w)
       /\ workers[w].result = Ok(1)
       /\ issued = 1

----------------------------------------------------------------------------
(* C27 *)

\* the calls of refresh() that have returned
Refreshed(w) == workers[w].invoked /\ workers[w].pc = "ret"

\* both rows hold the pair of tokens the provider sent to w
BothUpserted(w) ==
    settings = [access_token |-> Some(workers[w].new[1].access_token),
                refresh_token |-> Some(workers[w].new[1].refresh_token)]

\* refresh() fails and changes nothing without a refresh_token row, without
\* a provider call, and after a non-2xx reply
FailsUnchanged(w) ==
    /\ workers[w].before[1].refresh_token = None =>
          /\ ~workers[w].result.ok /\ ~workers[w].asked
          /\ settings = workers[w].before[1]
    /\ workers[w].reply = "non-2xx" =>
          /\ ~workers[w].result.ok
          /\ settings = workers[w].before[1]

\* C27 as stated: AuthProvider.refresh() fails with an error and leaves both
\* settings rows unchanged when no refresh_token row exists (no provider call
\* is made) or when the provider replies non-2xx; on a 2xx reply it upserts
\* both the access_token and the refresh_token row and returns the new access
\* token.
C27_AsStated ==
    [][\A w \in Workers :
          (Acted(w) /\ Refreshed(w)') =>
             /\ FailsUnchanged(w)'
             /\ workers'[w].reply \in {"2xx", "2xx without tokens"} =>
                   /\ workers'[w].new # None
                   /\ workers'[w].result =
                         Ok(workers'[w].new[1].access_token)
                   /\ BothUpserted(w)']_vars

\* the outcomes of a refresh() that got a 2xx reply
Outcomes2xx(w) ==
    /\ workers[w].reply = "2xx" =>
          IF workers[w].result.ok
          THEN /\ workers[w].result = Ok(workers[w].new[1].access_token)
               /\ BothUpserted(w)
          ELSE \/ settings = workers[w].before[1]
               \/ settings = [workers[w].before[1] EXCEPT
                     !.refresh_token = Some(workers[w].new[1].refresh_token)]
    /\ workers[w].reply = "2xx without tokens" =>
          /\ ~workers[w].result.ok
          /\ settings = workers[w].before[1]

\* C27, amended: AuthProvider.refresh() fails with an error and leaves both
\* settings rows unchanged when no refresh_token row exists (no provider call
\* is made) or when the provider replies non-2xx; on a 2xx reply that carries
\* both tokens it upserts the refresh_token row and then the access_token row
\* and returns the new access token, unless an upsert fails: then it returns
\* the error, with no row changed when the first upsert failed and with the
\* refresh_token row alone replaced when the second failed; a 2xx reply
\* without the tokens ends the call without a write.
C27_RefreshOutcomes ==
    [][\A w \in Workers :
          (Acted(w) /\ Refreshed(w)') =>
             (FailsUnchanged(w)' /\ Outcomes2xx(w)')]_vars

\* a second refresh() got the pair 2 from the provider, replaced both rows
\* of the pair 1 and returned the access token 2
C27_Witness ==
    \E w \in Workers :
       /\ Refreshed(w) /\ workers[w].op = "refresh"
       /\ workers[w].reply = "2xx"
       /\ workers[w].before[1] = [access_token |-> Some(1),
                                  refresh_token |-> Some(1)]
       /\ workers[w].result = Ok(2)
       /\ BothUpserted(w)

----------------------------------------------------------------------------
(* C28 *)

\* a reply has been decoded: calc.args is the reply, calc.out[1] the value
\* of parse
Decoded == calc.op = "parse" /\ calc.out # <<>>

\* the grid is a buffer of pixels with W - 1 >= 1 and H - 1 >= 1, as the
\* 64 x 64 buffer of the tile server is
Buffer(grid) == Len(grid) >= 2 /\ grid[1] >= 2

\* the pixels of code c: the keys whose value array is the one element c
PixelsOf(c) == {k \in DOMAIN calc.args.data : calc.args.data[k] = <<c>>}

\* the codes of the entries that are not ignored
Kept == {c \in GridCodes : PixelsOf(c) # {}}

\* f is the midpoint of the smallest and the largest of vals, divided by
\* size, and lies in [0, 1]
IsMidpoint(f, vals, size) ==
    /\ \E lo, hi \in vals :
          /\ \A v \in vals : lo <= v /\ v <= hi
          /\ f.mid2 = lo + hi
    /\ f.size = size
    /\ 0 <= f.mid2 /\ f.mid2 <= 2 * f.size

\* C28: UTF-grid decoding of a reply whose grid is a buffer of pixels
\* ignores every data entry whose value array does not have exactly one
\* element, and emits exactly one GcCode per distinct code among the
\* remaining entries, whose approximate position is the midpoint of the
\* bounding box (min_x, max_x, min_y, max_y) of that code's pixels,
\* normalised by (W-1, H-1) so that both fractions lie in [0, 1].
C28_Decoding ==
    (Decoded /\ Buffer(calc.args.grid)) =>
       /\ calc.out[1].ok
       /\ LET emitted == calc.out[1].val
          IN /\ Len(emitted) = Cardinality(Kept)
             /\ {emitted[i].code : i \in 1..Len(emitted)} = Kept
             /\ \A i \in 1..Len(emitted) :
                   /\ emitted[i].approx_coord # None
                   /\ LET at == emitted[i].approx_coord[1]
                          pixels == PixelsOf(emitted[i].code)
                      IN /\ at.tile = TileB
                         /\ IsMidpoint(at.x, {k[1] : k \in pixels},
                                       calc.args.grid[1] - 1)
                         /\ IsMidpoint(at.y, {k[2] : k \in pixels},
                                       Len(calc.args.grid) - 1)

\* a 64 x 64 reply with code 1 at the pixels (0, 0) and (63, 63), code 2 at
\* (1, 0) and both codes at (1, 1): two codes are emitted, code 1 at the
\* middle of the tile, code 2 at (1/63, 0)
C28_Witness ==
    /\ Decoded
    /\ calc.args.grid = GridOf(GridSide, GridSide)
    /\ DOMAIN calc.args.data = PixelKeys
    /\ calc.args.data[<<0, 0>>] = <<1>>
    /\ calc.args.data[<<GridSide - 1, GridSide - 1>>] = <<1>>
    /\ calc.args.data[<<1, 0>>] = <<2>>
    /\ calc.args.data[<<1, 1>>] = <<1, 2>>
    /\ calc.out[1] =
          Ok(<<GcCode(1, Some(utf_grid_offset(TileB,
                        Fraction(GridSide - 1, GridSide - 1),
                        Fraction(GridSide - 1, GridSide - 1)))),
               GcCode(2, Some(utf_grid_offset(TileB,
                        Fraction(2, GridSide - 1),
                        Fraction(0, GridSide - 1))))>>)

----------------------------------------------------------------------------
(* C29 *)

\* C29 as stated: for any upstream tile reply in which no (x,y) key has a
\* single-cache value (including replies whose data map or grid array is
\* empty), UTF-grid decoding returns an empty list without error.
C29_AsStated ==
    (Decoded /\ Singles(calc.args.data) = {}) => calc.out[1] = Ok(<<>>)

----------------------------------------------------------------------------
(* C30 *)

\* C30 as stated: for every Tile t = (x, y, z) with x, y < 2^z, including
\* tiles with x = 0 or y = 0, t.around() returns exactly 9 tiles at zoom z,
\* one of which is t.
C30_AsStated ==
    (calc.op = "around" /\ calc.out # <<>>) =>
       /\ calc.out[1].ok
       /\ Len(calc.out[1].val) = 9
       /\ Cardinality(Range(calc.out[1].val)) = 9
       /\ \A i \in 1..Len(calc.out[1].val) :
             calc.out[1].val[i].z = calc.args.z
       /\ calc.args \in Range(calc.out[1].val)

----------------------------------------------------------------------------
(* C31 *)

\* Tile::near has returned: calc.out[1] is the Vec
NearReturned == calc.op = "near" /\ calc.out # <<>>

\* the tile of zoom z that contains the projected corner
CornerTile(bearing, z) ==
    from_coordinates(project(calc.args.coordinate, calc.args.radius, bearing),
                     z)

\* the Vec holds, each once, the tiles of zoom zr whose x and y lie between
\* those of the tiles of zoom zc that contain the two corners
SquareOfTiles(zr, zc) ==
    LET returned == calc.out[1]
        a == CornerTile(315, zc)
        b == CornerTile(135, zc)
    IN /\ \A i, j \in 1..Len(returned) :
             returned[i] = returned[j] => i = j
       /\ Range(returned) = {Tile(x, y, zr) : x \in a.x..b.x, y \in a.y..b.y}

----------------------------------------------------------------------------
(* C32 *)

\* the task runs process_filtered for job id, whose tile set is empty
EmptyJobRuns(id) ==
    /\ job.pc \in {"loop", "get"} /\ job.id = id /\ job.tiles = <<>>

\* no tile request, detail request, token lookup or refresh has been made
\* since the task was spawned, and none is under way
NoUpstreamNoToken ==
    /\ log = <<>>
    /\ gs.pc \in {"idle", "ret"}
    /\ rf.pc = "idle"
    /\ ds.pc = "idle"

\* job id has ended with the message "Finished" and an empty list
FinishedEmpty(id) ==
    /\ id \in DOMAIN jobs
    /\ jobs[id].task = "finished"
    /\ get_message(jobs[id].state) = Finished
    /\ jobs[id].state.geocaches = <<>>

\* C32: a job over an empty tile set (e.g. planned from an empty track)
\* reaches message "Finished" with an empty result without issuing any
\* upstream discovery request, detail request or token lookup/refresh.
C32_EmptyJob ==
    /\ [](\A id \in JobIds : EmptyJobRuns(id) => NoUpstreamNoToken)
    /\ \A id \in JobIds : EmptyJobRuns(id) ~> FinishedEmpty(id)
    /\ [](\A id \in JobIds :
            (FinishedEmpty(id) /\ jobs[id].tiles = <<>> /\ job.pc = "idle")
               => (log = <<>> /\ jobs[id].seen = <<>>))

\* the job of an empty track has ended: its messages were "Downloading 0
\* geocaches" and "Finished", and nothing was asked of the upstream
C32_Witness ==
    \E id \in JobIds :
       /\ FinishedEmpty(id) /\ jobs[id].tiles = <<>>
       /\ jobs[id].msgs = <<DownloadingMessage(0), Finished>>
       /\ log = <<>>

----------------------------------------------------------------------------
(* C33 *)

\* the poller w got None from get_geocaches() and then "Finished" from
\* get_message(), which it returns as the body
ReportsDoneEmpty(w) ==
    /\ workers[w].op = "query_task" /\ workers[w].pc = "ret"
    /\ workers[w].result = Ok([body |-> "message", val |-> Finished])

\* C33 as stated: for every interleaving of a polling request with the
\* job's background task: if the poller's get_geocaches() returned None and
\* its subsequent get_message() returned "Finished", then the job finished
\* with an empty result (the poller never reports a job with a non-empty
\* result as 'done, empty').
C33_AsStated ==
    \A w \in Workers :
       ReportsDoneEmpty(w) =>
          /\ jobs[workers[w].id].task = "finished"
          /\ jobs[workers[w].id].state.geocaches = <<>>

----------------------------------------------------------------------------
(* C34 *)

\* what one read under the lock of a job's state can see: a list that is
\* not empty only together with "Finished"
ResultOnlyWithFinished ==
    \A j \in DOMAIN jobs :
       jobs[j].state.geocaches # <<>> =>
          get_message(jobs[j].state) = Finished

\* no step changes the list or the message of a job whose message is
\* "Finished"
FinishedIsFinal ==
    \A j \in DOMAIN jobs :
       get_message(jobs[j].state) = Finished =>
          jobs'[j].state = jobs[j].state

\* C34: in every reachable state of a job, a non-empty published geocache
\* list implies message = "Finished": the result list and the "Finished"
\* message are written in one critical section of the per-job mutex, so no
\* single read observes a published result together with a progress
\* message, and neither the list nor the message changes after "Finished".
C34_PublishedAtOnce ==
    /\ []ResultOnlyWithFinished
    /\ [][FinishedIsFinal]_vars

\* a job over two tiles has published a list of geocaches with "Finished",
\* after the progress message "Downloading ..."
C34_Witness ==
    \E j \in DOMAIN jobs :
       /\ jobs[j].state.geocaches # <<>>
       /\ get_message(jobs[j].state) = Finished
       /\ Len(jobs[j].tiles) = 2
       /\ jobs[j].msgs[Len(jobs[j].msgs) - 1].text = "Downloading {} geocaches"

----------------------------------------------------------------------------
(* C35 *)

\* a discover that has failed: ds.old holds the two tables as they were
\* when it was called
DiscoverFailed == ds.pc = "ret" /\ ~ds.result.ok

TablesAsBefore == tiles2 = ds.old[1] /\ tiles_codes = ds.old[2]

\* the rows of a tile that has a header are the codes of the discovery that
\* wrote the header, all of them
HeaderWithAllCodes ==
    \A q \in QuadKeys :
       tiles2[q] # None =>
          /\ last_discovery[q] # None
          /\ tiles2[q][1] = last_discovery[q][1].at
          /\ {GcCode(r.gccode, r.lat_lon) : r \in tiles_codes[q]}
                = last_discovery[q][1].codes

\* C35: if Cache.discover fails (upstream request error, undecodable reply,
\* or a database error before the commit), the tile header table and the
\* companion table are left exactly as they were before the call: no header
\* row is created or refreshed, and no reader can ever observe a fresh
\* header row together with only part of the newly discovered codes.
C35_FailedDiscover ==
    /\ DiscoverFailed => TablesAsBefore
    /\ HeaderWithAllCodes

\* the discovery of a tile whose header is stale has failed in the
\* transaction of store_gccodes, after the upstream had sent a code: the old
\* header and no row of the new code are in the tables
C35_Witness ==
    /\ DiscoverFailed /\ TablesAsBefore
    /\ ds.codes # <<>>
    /\ tiles2[Key(ds.tile)] # None
    /\ ~TileFresh(tiles2, Key(ds.tile), cutoff_of(now))
    /\ Range(ds.codes) # last_discovery[Key(ds.tile)][1].codes

----------------------------------------------------------------------------
(* C36 *)

\* discover has returned from its hit branch (cache.rs 224-229)
DiscoverHit ==
    /\ ds.pc = "ret" /\ ds.result.ok
    /\ TileFresh(ds.old[1], Key(ds.tile), cutoff_of(ds.at))

\* the last discover that stored rows under the key of the tile was a miss
\* on this very tile
MissOnSameTile ==
    /\ last_discovery[Key(ds.tile)] # None
    /\ last_discovery[Key(ds.tile)][1].tile = ds.tile

\* code lists as store_gccodes accepts them: distinct codes, each with or
\* without an approximate coordinate
StoredLists ==
    {l \in SeqsUpTo({GcCode(c, a) : c \in {1, 2},
                                    a \in {None, Some("near")}}, 2) :
        \A i, j \in 1..Len(l) : l[i].code = l[j].code => i = j}

\* what load_gccodes gives after store_gccodes stored the list under a key
\* that held other rows
LoadAfterStore(l) ==
    LET q == Key(TileA)
        tc == [tiles_codes EXCEPT
                 ![q] = {[gccode |-> 3, lat_lon |-> Some("far")]}]
    IN load_gccodes(store_gccodes(tiles2, tc, q, l, now).tc, q)

\* C36: a Cache.discover miss followed by a Cache.discover hit on the same
\* tile returns the same set of (code, approx_coord) pairs as the miss
\* returned: codes stored without an approximate coordinate are loaded with
\* approx_coord = None, codes stored with one are loaded with the same
\* lat/lon, and no code is duplicated or lost.
C36_MissThenHit ==
    /\ (DiscoverHit /\ MissOnSameTile) =>
          /\ Range(ds.result.val.data)
                = last_discovery[Key(ds.tile)][1].codes
          /\ \A i, j \in 1..Len(ds.result.val.data) :
                ds.result.val.data[i].code = ds.result.val.data[j].code => i = j
    /\ \A l \in StoredLists :
          \A got \in LoadAfterStore(l) :
             Range(got) = Range(l) /\ Len(got) = Len(l)

\* a hit on tile A has returned the two codes its miss had stored, while
\* another tile has rows of its own
C36_Witness ==
    /\ DiscoverHit /\ MissOnSameTile
    /\ ds.tile = TileA
    /\ Len(ds.result.val.data) = 2
    /\ tiles_codes[Key(TileB)] # {}

----------------------------------------------------------------------------
(* C37 *)

\* fetch_chunk is running
InFetchChunk == gs.pc \in {"token", "fetch", "refresh"}

\* the detail calls the running fetch_chunk has sent
DetailCalls ==
    Cardinality({i \in (gs.mark + 1)..Len(log) : log[i].ev = "detail"})

\* the step in which fetch_chunk calls token() (line 131)
TokenLookup == gs.pc = "token" /\ gs'.pc \in {"fetch", "refresh"}

\* the step in which fetch_chunk comes back to line 131 for the same chunk
LoopsAgain ==
    gs.pc \in {"fetch", "refresh"} /\ gs'.pc = "token" /\ gs'.k = gs.k

\* the step in which refresh() fails, called by token() or by fetch_chunk
RefreshFails == rf.pc \in {"load", "call"} /\ rf'.pc = "idle"

\* token() is called with attempts 0 or 1 only, and fetch_chunk comes back
\* to it only after it counted an attempt
TwoLookups ==
    /\ TokenLookup => gs.attempts < 2
    /\ LoopsAgain => gs'.attempts = gs.attempts + 1

FailsAtOnce ==
    RefreshFails => (gs'.pc = "ret" /\ ~gs'.result.ok /\ log' = log)

\* C37: every execution of fetch_chunk terminates after at most two token
\* lookups and two upstream detail calls, whatever the upstream replies; if
\* token() or refresh() itself fails, fetch_chunk returns that error
\* immediately without issuing a further detail call.
C37_FetchChunkEnds ==
    /\ [](gs.attempts <= 2 /\ DetailCalls <= 2)
    /\ [][TwoLookups]_vars
    /\ [][FailsAtOnce]_vars
    /\ InFetchChunk ~> ~InFetchChunk

\* fetch_chunk has left its loop with Err(Geocaching): two detail calls were
\* sent and failed, each followed by a refresh that succeeded
C37_Witness ==
    /\ gs.pc = "ret" /\ ~gs.result.ok
    /\ gs.attempts = 2 /\ DetailCalls = 2

----------------------------------------------------------------------------
(* C38 *)

\* the row of code c, as the running get found it, was fresh and holds a
\* record that does not parse
StoredMalformed(c) ==
    /\ gs.rows[c] # None
    /\ gs.rows[c][1].ts >= gs.cutoff
    /\ ~ParseOk(gs.rows[c][1].raw)

\* the running get took code c for a miss
TakenForMiss(c) ==
    /\ c \in Range(gs.cache_miss)
    /\ \A i \in 1..Len(gs.cache_hit) : gs.cache_hit[i].code # c

\* the running get has sent code c upstream
SentUpstream(c) == c \in Range(SentCodes(gs.start))

\* C38 as stated: Cache.get never returns as a cache hit a stored detail row
\* that fails to parse: save_geocache upserts the raw record before parsing
\* it, so a malformed record can be stored with a fresh ts, but every later
\* get treats that code as a miss and requests it upstream again.
C38_AsStated ==
    \A c \in Range(gs.codes) :
       StoredMalformed(c) =>
          /\ TakenForMiss(c)
          /\ gs.pc = "ret" => SentUpstream(c)

\* C38, amended: Cache.get never returns as a cache hit a stored detail row
\* that fails to parse: save_geocache upserts the raw record before parsing
\* it, so a malformed record can be stored with a fresh ts, but every later
\* get treats that code as a miss and, unless it fails before the detail
\* request of that code's chunk is sent, requests it upstream again.
C38_MalformedIsMiss ==
    \A c \in Range(gs.codes) :
       StoredMalformed(c) =>
          /\ TakenForMiss(c)
          /\ gs.pc = "ret" => (SentUpstream(c) \/ ~gs.result.ok)

\* a get found the malformed record an earlier get had stored, asked the
\* upstream for the code again and returned the geocache of the full record
\* it was sent
C38_Witness ==
    /\ gs.pc = "ret" /\ gs.result.ok
    /\ \E c \in Range(gs.codes) :
          /\ StoredMalformed(c)
          /\ SentUpstream(c)
          /\ ParseOk(geocaches[c][1].raw)

----------------------------------------------------------------------------
(* C39 *)

\* the running get repeats a get that failed; gs.first holds the codes of
\* the records the failed get had upserted
RepeatsFailed == gs.pc # "idle" /\ gs.first # None

\* the row of code c was there, fresh, when the running get looked it up
RowStayed(c) == gs.rows[c] # None /\ gs.rows[c][1].ts >= gs.cutoff

\* the running get took code c for a hit
TakenForHit(c) ==
    /\ \E i \in 1..Len(gs.cache_hit) : gs.cache_hit[i].code = c
    /\ c \notin Range(gs.cache_miss)

\* C39 as stated: when Cache.get fails part-way (a later chunk or a later
\* record raises), every detail record that was upserted before the failure
\* stays in the geocaches table with its fresh ts, so a repeated get of the
\* same codes treats those codes as hits and sends upstream only the codes
\* that were not saved.
C39_AsStated ==
    RepeatsFailed =>
       /\ \A c \in gs.first[1].saved : RowStayed(c) /\ TakenForHit(c)
       /\ Range(SentCodes(gs.start)) \cap gs.first[1].saved = {}

\* the saved codes the repeated get finds again: the record parses and the
\* read of the row succeeds
FoundAgain ==
    {c \in gs.first[1].saved : ParseOk(gs.rows[c][1].raw) /\ c \notin gs.bad}

\* C39, amended: when Cache.get fails part-way (a later chunk or a later
\* record raises), every detail record that was upserted before the failure
\* stays in the geocaches table with its fresh ts, so a repeated get of the
\* same codes treats those codes as hits, except the codes whose saved
\* record does not parse or whose row read fails, and sends upstream only
\* the codes that were not saved and the excepted ones.
C39_SavedStay ==
    RepeatsFailed =>
       /\ \A c \in gs.first[1].saved : RowStayed(c)
       /\ \A c \in FoundAgain : TakenForHit(c)
       /\ Range(SentCodes(gs.start)) \cap FoundAgain = {}

\* a get of 51 codes failed in its second chunk; the repeated get found the
\* 50 records of the first chunk and sent only the code of the second
C39_Witness ==
    /\ RepeatsFailed /\ gs.pc = "ret"
    /\ Cardinality(FoundAgain) >= BATCH_SIZE
    /\ Len(gs.codes) = BATCH_SIZE + 1
    /\ Len(SentCodes(gs.start)) = 1

=============================================================================
